---------------------------- MODULE Spec2Model ----------------------------
(***************************************************************************)
(* Conversational memory of the SmartMem purple agent: turn records and    *)
(* their projection to chat messages (memory/schema.py), the store         *)
(* contract (memory/base.py) and the FIFO, LRU and Semantic policies       *)
(* (memory/fifo.py, memory/lru.py, memory/semantic.py).                    *)
(*                                                                         *)
(* Encoding of Python values:                                              *)
(*   str            a sequence of one-character strings                    *)
(*   Optional[T]    None is <<>>, a present value v is <<v>>               *)
(*   dict           a function, or a sequence of <<key, value>> pairs      *)
(*                  where the insertion order is observable                *)
(*   Counter        a function from the counted keys to positive counts    *)
(*   datetime       a tick count of the wall clock                         *)
(***************************************************************************)
EXTENDS Integers, Sequences, FiniteSets, TLC

VARIABLES
    policy,                 \* which class of MEMORY_REGISTRY the store is
    max_tokens, max_items,  \* constructor arguments
    recent_window, semantic_top_k,
    storage,                \* self.storage
    current_total_tokens,   \* self.current_total_tokens
    system_prompt,          \* self.system_prompt
    access_times,           \* LRUMemory.access_times
    tf_cache,               \* SemanticMemory.tf_cache
    doc_freq,               \* SemanticMemory.doc_freq
    total_docs,             \* SemanticMemory.total_docs
    last_query,             \* SemanticMemory.last_query
    now,                    \* the wall clock read by datetime.now()
    created,                \* number of MemoryItem objects constructed so far
    appended,               \* history: the items passed to add() since the last clear()
    lastOp,                 \* the operation that returned last
    item_arg,               \* the item that operation was given (Optional)
    query_arg,              \* the query and top_k that operation was given
    result                  \* what that operation returned

cfg   == <<policy, max_tokens, max_items, recent_window, semantic_top_k>>
store == <<storage, current_total_tokens, system_prompt, access_times,
           tf_cache, doc_freq, total_docs, last_query>>
obs   == <<appended, lastOp, item_arg, query_arg, result>>
vars  == <<cfg, store, now, created, obs>>

-----------------------------------------------------------------------------
(* Bounds of the model *)

MaxAdds        == 3   \* MemoryItem objects constructed in one behaviour
MaxClock       == 1   \* last second of the wall clock
TicksPerSecond == 2   \* clock ticks that share one '%Y%m%d_%H%M%S' stamp

-----------------------------------------------------------------------------
(* Python values *)

None     == <<>>
Some(v)  == <<v>>
IsNone(o) == o = <<>>
Val(o)   == o[1]

Range(s) == {s[i] : i \in 1..Len(s)}

RECURSIVE Concat(_)
\* list.extend over a sequence of lists
Concat(ss) == IF ss = <<>> THEN <<>> ELSE Head(ss) \o Concat(Tail(ss))

RECURSIVE Join(_, _)
\* sep.join(parts)
Join(sep, parts) ==
    IF parts = <<>> THEN <<>>
    ELSE IF Len(parts) = 1 THEN parts[1]
    ELSE parts[1] \o sep \o Join(sep, Tail(parts))

\* d[k] = v on a dict modelled as a function
DictSet(d, k, v) == [x \in DOMAIN d \cup {k} |-> IF x = k THEN v ELSE d[x]]
\* del d[k]
DictDel(d, k) == [x \in DOMAIN d \ {k} |-> d[x]]
EmptyDict == [x \in {} |-> 0]

LowerCase == <<"a","b","c","d","e","f","g","h","i","j","k","l","m",
               "n","o","p","q","r","s","t","u","v","w","x","y","z">>
UpperCase == <<"A","B","C","D","E","F","G","H","I","J","K","L","M",
               "N","O","P","Q","R","S","T","U","V","W","X","Y","Z">>
Digits    == {"0","1","2","3","4","5","6","7","8","9"}

UpperSet == Range(UpperCase)
LowerSet == Range(LowerCase)
WordCharSet == UpperSet \cup LowerSet \cup Digits \cup {"_"}
ToLower  == [c \in UpperSet |-> LowerCase[CHOOSE i \in 1..Len(UpperCase) : c = UpperCase[i]]]
ToUpper  == [c \in LowerSet |-> UpperCase[CHOOSE i \in 1..Len(LowerCase) : c = LowerCase[i]]]

IsAsciiLetter(c) == c \in UpperSet \/ c \in LowerSet
\* the class \w of the re module, over the characters the model uses
IsWordChar(c) == c \in WordCharSet
\* str.lower()
StrLower(s)   == [i \in 1..Len(s) |-> IF s[i] \in UpperSet THEN ToLower[s[i]] ELSE s[i]]
\* str.capitalize()
StrCapitalize(s) ==
    [i \in 1..Len(s) |->
        IF i = 1 THEN (IF s[i] \in LowerSet THEN ToUpper[s[i]] ELSE s[i])
        ELSE (IF s[i] \in UpperSet THEN ToLower[s[i]] ELSE s[i])]

-----------------------------------------------------------------------------
(* memory/schema.py *)

RandLo == 1000
RandHi == 9999
\* the suffixes random.randint(1000, 9999) is let to return in the model: one
\* suffix, so that two default ids are equal exactly when they are generated
\* within the same second of the clock
Suffixes == {s \in RandLo..RandHi : s = RandLo}

\* generate_readable_id(): the second of the clock and a random suffix; the
\* string f"{timestamp}_{suffix}" has fixed width, so the pair determines it
generate_readable_id(clock, suffix) == <<clock \div TicksPerSecond, suffix>>

\* the role strings
RoleUser      == <<"u","s","e","r">>
RoleAssistant == <<"a","s","s","i","s","t","a","n","t">>
RoleSystem    == <<"s","y","s","t","e","m">>
RoleTool      == <<"t","o","o","l">>

\* tool_input is Union[str, Dict]: kind "str" carries text, kind "dict" carries pairs
StrInput(text)   == [kind |-> "str",  text |-> text, pairs |-> <<>>]
DictInput(pairs) == [kind |-> "dict", text |-> <<>>, pairs |-> pairs]

ToolInteraction(name, id, input, output) ==
    [tool_name |-> name, tool_id |-> id, tool_input |-> input, tool_output |-> output]

\* repr of a dict of plain strings, as str.format renders it
PyStrDict(pairs) ==
    <<"{">> \o
    Join(<<",", " ">>,
         [i \in 1..Len(pairs) |->
            <<"'">> \o pairs[i][1] \o <<"'", ":", " ", "'">> \o pairs[i][2] \o <<"'">>])
    \o <<"}">>

\* json.dumps of a dict of plain ASCII strings
JsonDumps(pairs) ==
    <<"{">> \o
    Join(<<",", " ">>,
         [i \in 1..Len(pairs) |->
            <<"\"">> \o pairs[i][1] \o <<"\"", ":", " ", "\"">> \o pairs[i][2] \o <<"\"">>])
    \o <<"}">>

FormatInput(input) == IF input.kind = "dict" THEN PyStrDict(input.pairs) ELSE input.text

\* ToolInteraction.to_string
to_string(t) ==
    <<"[","C","a","l","l",":"," ">> \o t.tool_name \o <<"(">> \o FormatInput(t.tool_input)
    \o <<")","]"," ","-",">"," ","[","R","e","s","u","l","t",":"," ">> \o t.tool_output \o <<"]">>

\* MemoryItem(...): seq stands for the object and its creation timestamp
MemoryItem(id, seq, role, content, tool_chain, token_count) ==
    [id |-> id, seq |-> seq, role |-> role, content |-> content,
     tool_chain |-> tool_chain, token_count |-> token_count]

\* truthiness of an Optional[str]
Truthy(o) == ~IsNone(o) /\ Val(o) # <<>>

\* MemoryItem.get_display_content
get_display_content(item) ==
    LET chainParts == [i \in 1..Len(item.tool_chain) |-> to_string(item.tool_chain[i])]
        parts == IF Truthy(item.content) THEN Append(chainParts, Val(item.content))
                 ELSE chainParts
    IN  Join(<<"\n">>, parts)

\* a variant that emits the tool results last-to-first
to_openai_messages_results_reversed(item) ==
    IF item.tool_chain = <<>>
    THEN << [role |-> item.role, content |-> item.content] >>
    ELSE LET n == Len(item.tool_chain)
         IN  << [role |-> RoleAssistant, content |-> item.content,
                 tool_calls |->
                    [i \in 1..n |->
                        [id   |-> item.tool_chain[i].tool_id,
                         type |-> "function",
                         function |->
                            [name |-> item.tool_chain[i].tool_name,
                             arguments |->
                                IF item.tool_chain[i].tool_input.kind = "dict"
                                THEN JsonDumps(item.tool_chain[i].tool_input.pairs)
                                ELSE item.tool_chain[i].tool_input.text]]]] >>
             \o [i \in 1..n |->
                    [role |-> RoleTool,
                     tool_call_id |-> item.tool_chain[n + 1 - i].tool_id,
                     content |-> item.tool_chain[n + 1 - i].tool_output]]

\* a variant that emits nothing for a turn without content and without tool calls
to_openai_messages_skipping_empty(item) ==
    IF item.tool_chain = <<>>
    THEN (IF IsNone(item.content) THEN <<>>
          ELSE << [role |-> item.role, content |-> item.content] >>)
    ELSE LET n == Len(item.tool_chain)
         IN  << [role |-> RoleAssistant, content |-> item.content,
                 tool_calls |->
                    [i \in 1..n |->
                        [id   |-> item.tool_chain[i].tool_id,
                         type |-> "function",
                         function |->
                            [name |-> item.tool_chain[i].tool_name,
                             arguments |->
                                IF item.tool_chain[i].tool_input.kind = "dict"
                                THEN JsonDumps(item.tool_chain[i].tool_input.pairs)
                                ELSE item.tool_chain[i].tool_input.text]]]] >>
             \o [i \in 1..n |->
                    [role |-> RoleTool,
                     tool_call_id |-> item.tool_chain[i].tool_id,
                     content |-> item.tool_chain[i].tool_output]]

\* MemoryItem.to_openai_messages
to_openai_messages(item) ==
    IF item.tool_chain = <<>>
    THEN << [role |-> item.role, content |-> item.content] >>
    ELSE LET openai_tool_calls ==
                [i \in 1..Len(item.tool_chain) |->
                    [id   |-> item.tool_chain[i].tool_id,
                     type |-> "function",
                     function |->
                        [name |-> item.tool_chain[i].tool_name,
                         arguments |->
                            IF item.tool_chain[i].tool_input.kind = "dict"
                            THEN JsonDumps(item.tool_chain[i].tool_input.pairs)
                            ELSE item.tool_chain[i].tool_input.text]]]
             assistant_msg == [role |-> RoleAssistant, content |-> item.content,
                               tool_calls |-> openai_tool_calls]
         IN  <<assistant_msg>> \o
             [i \in 1..Len(item.tool_chain) |->
                [role |-> RoleTool,
                 tool_call_id |-> item.tool_chain[i].tool_id,
                 content |-> item.tool_chain[i].tool_output]]

-----------------------------------------------------------------------------
(* memory/fifo.py *)

\* the default estimator: lambda s: len(s) // 4
token_counter(s) == Len(s) \div 4

\* a variant that takes a token_count of 0 for unset: `if not item.token_count`
WithTokenCount_zero_as_unset(item) ==
    IF IsNone(item.token_count) \/ item.token_count = Some(0)
    THEN [item EXCEPT !.token_count = Some(token_counter(get_display_content(item)))]
    ELSE item

\* the first half of _add_to_storage, shared by the three policies:
\* an unset token_count is estimated once and cached on the item
WithTokenCount(item) ==
    IF IsNone(item.token_count)
    THEN [item EXCEPT !.token_count = Some(token_counter(get_display_content(item)))]
    ELSE item

\* removed_item.token_count or 0
TokenCountOr0(item) == IF IsNone(item.token_count) THEN 0 ELSE Val(item.token_count)

\* FIFOMemory._add_to_storage
FIFO_add_to_storage(stor, total, item) ==
    LET it == WithTokenCount(item)
    IN  [storage |-> Append(stor, it), total |-> total + Val(it.token_count)]

RECURSIVE FIFO_manage_ignoring_max_items(_, _)
\* a variant that enforces the token budget only
FIFO_manage_ignoring_max_items(stor, total) ==
    IF total > max_tokens /\ stor # <<>>
    THEN FIFO_manage_ignoring_max_items(Tail(stor), total - TokenCountOr0(Head(stor)))
    ELSE [storage |-> stor, total |-> total]

RECURSIVE FIFO_manage_keeping_last(_, _)
\* a variant that never pops the last remaining item
FIFO_manage_keeping_last(stor, total) ==
    IF (total > max_tokens \/ Len(stor) > max_items) /\ Len(stor) > 1
    THEN FIFO_manage_keeping_last(Tail(stor), total - TokenCountOr0(Head(stor)))
    ELSE [storage |-> stor, total |-> total]

RECURSIVE FIFO_manage_popping_newest(_, _)
\* a variant that pops the newest item, storage.pop(), instead of the oldest
FIFO_manage_popping_newest(stor, total) ==
    IF (total > max_tokens \/ Len(stor) > max_items) /\ stor # <<>>
    THEN FIFO_manage_popping_newest(SubSeq(stor, 1, Len(stor) - 1),
                                    total - TokenCountOr0(stor[Len(stor)]))
    ELSE [storage |-> stor, total |-> total]

RECURSIVE FIFO_manage_memory_constraints(_, _)
\* FIFOMemory._manage_memory_constraints
FIFO_manage_memory_constraints(stor, total) ==
    IF (total > max_tokens \/ Len(stor) > max_items) /\ stor # <<>>
    THEN FIFO_manage_memory_constraints(Tail(stor), total - TokenCountOr0(Head(stor)))
    ELSE [storage |-> stor, total |-> total]

\* FIFOMemory.retrieve: query and top_k are ignored, the system prompt is
\* collected into a local list that is dropped
FIFO_retrieve(stor) == stor

\* a variant that leaves out the first message of the list
Base_get_chat_messages_dropping_first(items) ==
    LET messages == Concat([i \in 1..Len(items) |-> to_openai_messages(items[i])])
    IN  IF messages = <<>> THEN <<>> ELSE Tail(messages)

\* BaseMemory.get_chat_messages, inherited by FIFOMemory
Base_get_chat_messages(items) ==
    Concat([i \in 1..Len(items) |-> to_openai_messages(items[i])])

\* the loop of get_prompt_context, the same in the three policies
PromptLines(items) ==
    Concat([i \in 1..Len(items) |->
              StrCapitalize(items[i].role) \o <<":", " ">>
              \o get_display_content(items[i]) \o <<"\n">>])

\* FIFOMemory.get_prompt_context
FIFO_get_prompt_context(items) == Some(PromptLines(items))

-----------------------------------------------------------------------------
(* memory/lru.py *)

\* datetime.min, below every reading of the clock
DatetimeMin == -1

\* self.access_times.get(x.id, datetime.min)
AccessTimeOf(at, item) == IF item.id \in DOMAIN at THEN at[item.id] ELSE DatetimeMin

\* min(self.storage, key=...): the first item with the smallest key
LRU_min(stor, at) ==
    LET i == CHOOSE i \in 1..Len(stor) :
                /\ \A j \in 1..Len(stor) : AccessTimeOf(at, stor[i]) <= AccessTimeOf(at, stor[j])
                /\ \A j \in 1..(i - 1) : AccessTimeOf(at, stor[j]) > AccessTimeOf(at, stor[i])
    IN  stor[i]

\* list.remove(x): drops the first element equal to x
ListRemove(s, x) ==
    LET i == CHOOSE i \in 1..Len(s) : s[i] = x /\ \A j \in 1..(i - 1) : s[j] # x
    IN  SubSeq(s, 1, i - 1) \o SubSeq(s, i + 1, Len(s))

\* LRUMemory._add_to_storage
LRU_add_to_storage(stor, total, at, item, clock) ==
    LET it == WithTokenCount(item)
    IN  [storage |-> Append(stor, it), total |-> total + Val(it.token_count),
         access_times |-> DictSet(at, it.id, clock)]

RECURSIVE LRU_manage_keeping_total(_, _, _)
\* a variant that removes the item and leaves the token total as it was
LRU_manage_keeping_total(stor, total, at) ==
    IF Len(stor) > max_items /\ stor # <<>>
    THEN LET lru_item == LRU_min(stor, at)
         IN  LRU_manage_keeping_total(
                 ListRemove(stor, lru_item),
                 total,
                 IF lru_item.id \in DOMAIN at THEN DictDel(at, lru_item.id) ELSE at)
    ELSE [storage |-> stor, total |-> total, access_times |-> at]

RECURSIVE LRU_manage_memory_constraints(_, _, _)
\* LRUMemory._manage_memory_constraints
LRU_manage_memory_constraints(stor, total, at) ==
    IF (total > max_tokens \/ Len(stor) > max_items) /\ stor # <<>>
    THEN LET lru_item == LRU_min(stor, at)
         IN  LRU_manage_memory_constraints(
                 ListRemove(stor, lru_item),
                 total - TokenCountOr0(lru_item),
                 IF lru_item.id \in DOMAIN at THEN DictDel(at, lru_item.id) ELSE at)
    ELSE [storage |-> stor, total |-> total, access_times |-> at]

\* a variant of retrieve that refreshes the access time of the oldest stored item only
LRU_retrieve_access_times_first_only(stor, at, clock) ==
    [k \in DOMAIN at \cup {stor[i].id : i \in 1..Len(stor)} |->
        IF stor # <<>> /\ stor[1].id = k THEN clock
        ELSE IF k \in DOMAIN at THEN at[k] ELSE clock]

\* LRUMemory.retrieve: the access-time map after the refresh; the list returned is storage
LRU_retrieve_access_times(stor, at, clock) ==
    [k \in DOMAIN at \cup {stor[i].id : i \in 1..Len(stor)} |->
        IF \E i \in 1..Len(stor) : stor[i].id = k THEN clock ELSE at[k]]

\* LRUMemory.get_chat_messages and SemanticMemory.get_chat_messages
WithSystem_get_chat_messages(sysp, items) ==
    (IF ~IsNone(sysp) THEN to_openai_messages(Val(sysp)) ELSE <<>>)
    \o Concat([i \in 1..Len(items) |-> to_openai_messages(items[i])])

\* LRUMemory.get_prompt_context and SemanticMemory.get_prompt_context
NoneIfEmpty_get_prompt_context(items) ==
    IF items = <<>> THEN None ELSE Some(PromptLines(items))

-----------------------------------------------------------------------------
(* memory/semantic.py *)

RECURSIVE RunEnd(_, _)
\* the last index of the run of \w characters that starts at i
RunEnd(t, i) == IF i < Len(t) /\ IsWordChar(t[i + 1]) THEN RunEnd(t, i + 1) ELSE i

RECURSIVE FindAllWords(_, _)
\* re.findall(r'\b[a-zA-Z]+\b', t) from position i on: a run of \w characters
\* matches exactly when all of it is ASCII letters
FindAllWords(t, i) ==
    IF i > Len(t) THEN <<>>
    ELSE IF ~IsWordChar(t[i]) THEN FindAllWords(t, i + 1)
    ELSE LET j == RunEnd(t, i)
         IN  (IF \A k \in i..j : IsAsciiLetter(t[k]) THEN <<SubSeq(t, i, j)>> ELSE <<>>)
             \o FindAllWords(t, j + 1)

LongerThanTwo(w) == Len(w) > 2

\* SemanticMemory._tokenize
Semantic_tokenize(text) ==
    IF text = <<>> THEN <<>>
    ELSE SelectSeq(FindAllWords(StrLower(text), 1), LongerThanTwo)

\* collections.Counter(tokens)
Counter(tokens) ==
    [w \in Range(tokens) |-> Cardinality({i \in 1..Len(tokens) : tokens[i] = w})]

\* SemanticMemory._compute_tf
Semantic_compute_tf(text) == Counter(Semantic_tokenize(text))

\* SemanticMemory._update_idf: the new doc_freq (total_docs grows by one)
Semantic_update_idf(df, item) ==
    LET tokens == Range(Semantic_tokenize(get_display_content(item)))
    IN  [w \in DOMAIN df \cup tokens |->
            (IF w \in DOMAIN df THEN df[w] ELSE 0) + (IF w \in tokens THEN 1 ELSE 0)]

RECURSIVE Factorial(_)
Factorial(n) == IF n <= 1 THEN 1 ELSE n * Factorial(n - 1)

RECURSIVE SumOver(_, _)
SumOver(S, f) ==
    IF S = {} THEN 0
    ELSE LET x == CHOOSE x \in S : TRUE IN f[x] + SumOver(S \ {x}, f)

\* SemanticMemory._compute_similarity.  The float score is kept exact as the
\* integer score * den, where den is a multiple of every document frequency
Semantic_compute_similarity(query_tf, doc_tf, df, docs, den) ==
    LET common_terms == DOMAIN query_tf \cap DOMAIN doc_tf
        dfOf(term)   == IF term \in DOMAIN df THEN df[term] ELSE 1
        weight       == [term \in common_terms |->
                            query_tf[term] * doc_tf[term] *
                            (IF dfOf(term) > 0
                             THEN den + (den \div dfOf(term)) * docs
                             ELSE den)]
    IN  IF DOMAIN query_tf = {} \/ DOMAIN doc_tf = {} THEN 0
        ELSE IF common_terms = {} THEN 0
        ELSE SumOver(common_terms, weight)

\* a variant that takes the content of a turn of any role as the query
Semantic_add_to_storage_any_role(stor, total, tfc, df, docs, lq, item) ==
    LET it == WithTokenCount(item)
    IN  [storage    |-> Append(stor, it),
         total      |-> total + Val(it.token_count),
         tf_cache   |-> DictSet(tfc, it.id, Semantic_compute_tf(get_display_content(it))),
         doc_freq   |-> Semantic_update_idf(df, it),
         total_docs |-> docs + 1,
         last_query |-> IF Truthy(it.content) THEN it.content ELSE lq]

\* SemanticMemory._add_to_storage
Semantic_add_to_storage(stor, total, tfc, df, docs, lq, item) ==
    LET it == WithTokenCount(item)
    IN  [storage    |-> Append(stor, it),
         total      |-> total + Val(it.token_count),
         tf_cache   |-> DictSet(tfc, it.id, Semantic_compute_tf(get_display_content(it))),
         doc_freq   |-> Semantic_update_idf(df, it),
         total_docs |-> docs + 1,
         last_query |-> IF it.role = RoleUser /\ Truthy(it.content) THEN it.content ELSE lq]

RECURSIVE Semantic_manage_without_window(_, _, _)
\* a variant that evicts as FIFO does, down to an empty storage
Semantic_manage_without_window(stor, total, tfc) ==
    IF (total > max_tokens \/ Len(stor) > max_items) /\ stor # <<>>
    THEN LET removed_item == Head(stor)
         IN  Semantic_manage_without_window(
                 Tail(stor),
                 total - TokenCountOr0(removed_item),
                 IF removed_item.id \in DOMAIN tfc THEN DictDel(tfc, removed_item.id) ELSE tfc)
    ELSE [storage |-> stor, total |-> total, tf_cache |-> tfc]

RECURSIVE Semantic_manage_one_eviction(_, _, _)
\* a variant that evicts at most one item for each add
Semantic_manage_one_eviction(stor, total, tfc) ==
    IF (total > max_tokens \/ Len(stor) > max_items) /\ Len(stor) > recent_window
    THEN LET removed_item == Head(stor)
         IN  [storage  |-> Tail(stor),
              total    |-> total - TokenCountOr0(removed_item),
              tf_cache |-> IF removed_item.id \in DOMAIN tfc
                           THEN DictDel(tfc, removed_item.id) ELSE tfc]
    ELSE [storage |-> stor, total |-> total, tf_cache |-> tfc]

RECURSIVE Semantic_manage_memory_constraints(_, _, _)
\* SemanticMemory._manage_memory_constraints
Semantic_manage_memory_constraints(stor, total, tfc) ==
    IF (total > max_tokens \/ Len(stor) > max_items) /\ Len(stor) > recent_window
    THEN LET removed_item == Head(stor)
         IN  Semantic_manage_memory_constraints(
                 Tail(stor),
                 total - TokenCountOr0(removed_item),
                 IF removed_item.id \in DOMAIN tfc THEN DictDel(tfc, removed_item.id) ELSE tfc)
    ELSE [storage |-> stor, total |-> total, tf_cache |-> tfc]

\* self.storage[-n:] and self.storage[:-n] for n >= 0
SliceLast(s, n)    == IF n = 0 \/ n >= Len(s) THEN s ELSE SubSeq(s, Len(s) - n + 1, Len(s))
SliceButLast(s, n) == IF n = 0 \/ n >= Len(s) THEN <<>> ELSE SubSeq(s, 1, Len(s) - n)

\* a variant that sorts by ascending score, as without reverse=True
SortedByScoreAscending(scores) ==
    LET n == Len(scores)
        rank(i) == Cardinality({j \in 1..n :
                       scores[j] < scores[i] \/ (scores[j] = scores[i] /\ j < i)})
    IN  [r \in 1..n |-> CHOOSE i \in 1..n : rank(i) = r - 1]

\* scored_items.sort(key=score, reverse=True): a stable sort, so equal scores
\* keep their order; the result lists the positions of older_items
SortedByScore(scores) ==
    LET n == Len(scores)
        rank(i) == Cardinality({j \in 1..n :
                       scores[j] > scores[i] \/ (scores[j] = scores[i] /\ j < i)})
    IN  [r \in 1..n |-> CHOOSE i \in 1..n : rank(i) = r - 1]

\* a variant that returns the relevant older items only once a query selects some
Semantic_retrieve_relevant_only(stor, tfc, df, docs, lq, query, top_k_arg) ==
    LET top_k        == IF IsNone(top_k_arg) THEN semantic_top_k ELSE Val(top_k_arg)
        search_query == IF Truthy(query) THEN query ELSE lq
        older_items  == SliceButLast(stor, recent_window)
        query_tf     == Semantic_compute_tf(Val(search_query))
        den          == Factorial(docs)
        scores       == [i \in 1..Len(older_items) |->
                            Semantic_compute_similarity(
                                query_tf,
                                IF older_items[i].id \in DOMAIN tfc
                                THEN tfc[older_items[i].id] ELSE EmptyDict,
                                df, docs, den)]
        sorted       == SortedByScore(scores)
        top          == SubSeq(sorted, 1, IF top_k < Len(sorted) THEN top_k ELSE Len(sorted))
        relevant_ids == {older_items[top[r]].id : r \in {r \in 1..Len(top) : scores[top[r]] > 0}}
        InResult(item) == item.id \in relevant_ids
    IN  IF Len(stor) <= recent_window THEN stor
        ELSE IF ~Truthy(search_query) \/ older_items = <<>> THEN stor
        ELSE IF relevant_ids = {} THEN stor
        ELSE SelectSeq(stor, InResult)

\* a variant that returns the relevant items in score order, then the recent ones
Semantic_retrieve_in_score_order(stor, tfc, df, docs, lq, query, top_k_arg) ==
    LET top_k        == IF IsNone(top_k_arg) THEN semantic_top_k ELSE Val(top_k_arg)
        search_query == IF Truthy(query) THEN query ELSE lq
        recent_items == SliceLast(stor, recent_window)
        older_items  == SliceButLast(stor, recent_window)
        query_tf     == Semantic_compute_tf(Val(search_query))
        den          == Factorial(docs)
        scores       == [i \in 1..Len(older_items) |->
                            Semantic_compute_similarity(
                                query_tf,
                                IF older_items[i].id \in DOMAIN tfc
                                THEN tfc[older_items[i].id] ELSE EmptyDict,
                                df, docs, den)]
        sorted       == SortedByScore(scores)
        top          == SubSeq(sorted, 1, IF top_k < Len(sorted) THEN top_k ELSE Len(sorted))
        kept         == {r \in 1..Len(top) : scores[top[r]] > 0}
        IsKept(r)    == r \in kept
        positions    == SelectSeq([r \in 1..Len(top) |-> r], IsKept)
    IN  IF Len(stor) <= recent_window THEN stor
        ELSE IF ~Truthy(search_query) \/ older_items = <<>> THEN stor
        ELSE [r \in 1..Len(positions) |-> older_items[top[positions[r]]]] \o recent_items

\* SemanticMemory.retrieve
Semantic_retrieve(stor, tfc, df, docs, lq, query, top_k_arg) ==
    LET top_k        == IF IsNone(top_k_arg) THEN semantic_top_k ELSE Val(top_k_arg)
        search_query == IF Truthy(query) THEN query ELSE lq
        recent_items == SliceLast(stor, recent_window)
        older_items  == SliceButLast(stor, recent_window)
        query_tf     == Semantic_compute_tf(Val(search_query))
        den          == Factorial(docs)
        scores       == [i \in 1..Len(older_items) |->
                            Semantic_compute_similarity(
                                query_tf,
                                IF older_items[i].id \in DOMAIN tfc
                                THEN tfc[older_items[i].id] ELSE EmptyDict,
                                df, docs, den)]
        sorted       == SortedByScore(scores)
        top          == SubSeq(sorted, 1, IF top_k < Len(sorted) THEN top_k ELSE Len(sorted))
        relevant_ids == {older_items[top[r]].id : r \in {r \in 1..Len(top) : scores[top[r]] > 0}}
        InResult(item) == item.id \in relevant_ids \/ item \in Range(recent_items)
    IN  IF Len(stor) <= recent_window THEN stor
        ELSE IF ~Truthy(search_query) \/ older_items = <<>> THEN stor
        ELSE SelectSeq(stor, InResult)

-----------------------------------------------------------------------------
(* The store as a state machine *)

DefaultMaxTokens    == 2000
DefaultMaxItems     == 100
DefaultRecentWindow == 10
DefaultSemanticTopK == 5

Config(p, mt, mi, rw, k) ==
    [policy |-> p, max_tokens |-> mt, max_items |-> mi, recent_window |-> rw, semantic_top_k |-> k]

NoQuery == [query |-> None, top_k |-> None]

\* __init__ of the three classes: the state after construction with configuration c
Construct(c) ==
    /\ policy = c.policy
    /\ max_tokens = c.max_tokens
    /\ max_items = c.max_items
    /\ recent_window = c.recent_window
    /\ semantic_top_k = c.semantic_top_k
    /\ storage = <<>>
    /\ current_total_tokens = 0
    /\ system_prompt = None
    /\ access_times = EmptyDict
    /\ tf_cache = EmptyDict
    /\ doc_freq = EmptyDict
    /\ total_docs = 0
    /\ last_query = None
    /\ now = 0
    /\ created = 0

\* nothing has been called yet
NothingCalled ==
    /\ appended = <<>>
    /\ lastOp = "init"
    /\ item_arg = None
    /\ query_arg = NoQuery
    /\ result = None

\* what the caller passes to MemoryItem(...)
Template(role, content, tool_chain, token_count) ==
    [role |-> role, content |-> content, tool_chain |-> tool_chain, token_count |-> token_count]

\* the caller constructs the item: default id, creation stamp
NewItem(tpl, suffix) ==
    MemoryItem(generate_readable_id(now, suffix), created + 1,
               tpl.role, tpl.content, tpl.tool_chain, tpl.token_count)

\* the wall clock advances by a second, up to the second `last`
TickTo(last) ==
    /\ now \div TicksPerSecond < last
    /\ now' = now + TicksPerSecond
    /\ UNCHANGED <<cfg, store, created, obs>>

\* the wall clock advances by one tick, up to the tick `last`
SubTickTo(last) ==
    /\ now < last
    /\ now' = now + 1
    /\ UNCHANGED <<cfg, store, created, obs>>

Tick == TickTo(MaxClock)

\* what every add() leaves for the observer
Added(item) ==
    /\ created' = created + 1
    /\ appended' = Append(appended, item)
    /\ lastOp' = "add"
    /\ item_arg' = Some(item)
    /\ query_arg' = NoQuery
    /\ result' = None

\* what every read leaves for the observer
Returned(op, q, r) ==
    /\ lastOp' = op
    /\ item_arg' = None
    /\ query_arg' = q
    /\ result' = r
    /\ UNCHANGED <<created, appended>>

\* BaseMemory.add on a FIFOMemory
FIFOMemory_add(tpl, suffix) ==
    /\ policy = "fifo"
    /\ \E a \in {FIFO_add_to_storage(storage, current_total_tokens, NewItem(tpl, suffix))} :
       \E m \in {FIFO_manage_memory_constraints(a.storage, a.total)} :
           /\ storage' = m.storage
           /\ current_total_tokens' = m.total
           /\ Added(a.storage[Len(a.storage)])
    /\ UNCHANGED <<cfg, system_prompt, access_times, tf_cache, doc_freq, total_docs,
                   last_query, now>>

\* BaseMemory.add on an LRUMemory
LRUMemory_add(tpl, suffix) ==
    /\ policy = "lru"
    /\ \E a \in {LRU_add_to_storage(storage, current_total_tokens, access_times,
                                   NewItem(tpl, suffix), now)} :
       \E m \in {LRU_manage_memory_constraints(a.storage, a.total, a.access_times)} :
           /\ storage' = m.storage
           /\ current_total_tokens' = m.total
           /\ access_times' = m.access_times
           /\ Added(a.storage[Len(a.storage)])
    /\ UNCHANGED <<cfg, system_prompt, tf_cache, doc_freq, total_docs, last_query, now>>

\* BaseMemory.add on a SemanticMemory
SemanticMemory_add(tpl, suffix) ==
    /\ policy = "semantic"
    /\ \E a \in {Semantic_add_to_storage(storage, current_total_tokens, tf_cache, doc_freq,
                                        total_docs, last_query, NewItem(tpl, suffix))} :
       \E m \in {Semantic_manage_memory_constraints(a.storage, a.total, a.tf_cache)} :
           /\ storage' = m.storage
           /\ current_total_tokens' = m.total
           /\ tf_cache' = m.tf_cache
           /\ doc_freq' = a.doc_freq
           /\ total_docs' = a.total_docs
           /\ last_query' = a.last_query
           /\ Added(a.storage[Len(a.storage)])
    /\ UNCHANGED <<cfg, system_prompt, access_times, now>>

\* set_system_prompt, the same in the three classes; the prompt item is the
\* one item held outside storage and carries creation stamp 0
set_system_prompt(content, suffix) ==
    /\ system_prompt' = Some(MemoryItem(generate_readable_id(now, suffix), 0,
                                        RoleSystem, Some(content), <<>>, None))
    /\ lastOp' = "set_system_prompt"
    /\ item_arg' = None
    /\ query_arg' = NoQuery
    /\ result' = None
    /\ UNCHANGED <<cfg, storage, current_total_tokens, access_times, tf_cache, doc_freq,
                   total_docs, last_query, now, created, appended>>

FIFOMemory_retrieve(q) ==
    /\ policy = "fifo"
    /\ Returned("retrieve", q, FIFO_retrieve(storage))
    /\ UNCHANGED <<cfg, store, now>>

LRUMemory_retrieve(q) ==
    /\ policy = "lru"
    /\ access_times' = LRU_retrieve_access_times(storage, access_times, now)
    /\ Returned("retrieve", q, storage)
    /\ UNCHANGED <<cfg, storage, current_total_tokens, system_prompt, tf_cache, doc_freq,
                   total_docs, last_query, now>>

\* a variant of retrieve that keeps an explicit query as the default query
SemanticMemory_retrieve_keeping_query(q) ==
    /\ policy = "semantic"
    /\ Returned("retrieve", q,
                Semantic_retrieve(storage, tf_cache, doc_freq, total_docs, last_query,
                                  q.query, q.top_k))
    /\ last_query' = (IF Truthy(q.query) THEN q.query ELSE last_query)
    /\ UNCHANGED <<cfg, storage, current_total_tokens, system_prompt, access_times, tf_cache,
                   doc_freq, total_docs, now>>

SemanticMemory_retrieve(q) ==
    /\ policy = "semantic"
    /\ Returned("retrieve", q,
                Semantic_retrieve(storage, tf_cache, doc_freq, total_docs, last_query,
                                  q.query, q.top_k))
    /\ UNCHANGED <<cfg, store, now>>

\* BaseMemory.get_chat_messages, which FIFOMemory inherits
FIFOMemory_get_chat_messages ==
    /\ policy = "fifo"
    /\ Returned("get_chat_messages", NoQuery, Base_get_chat_messages(FIFO_retrieve(storage)))
    /\ UNCHANGED <<cfg, store, now>>

LRUMemory_get_chat_messages ==
    /\ policy = "lru"
    /\ access_times' = LRU_retrieve_access_times(storage, access_times, now)
    /\ Returned("get_chat_messages", NoQuery,
                WithSystem_get_chat_messages(system_prompt, storage))
    /\ UNCHANGED <<cfg, storage, current_total_tokens, system_prompt, tf_cache, doc_freq,
                   total_docs, last_query, now>>

SemanticMemory_get_chat_messages ==
    /\ policy = "semantic"
    /\ Returned("get_chat_messages", NoQuery,
                WithSystem_get_chat_messages(
                    system_prompt,
                    Semantic_retrieve(storage, tf_cache, doc_freq, total_docs, last_query,
                                      None, None)))
    /\ UNCHANGED <<cfg, store, now>>

\* FIFOMemory.get_prompt_context: the query is not passed on
FIFOMemory_get_prompt_context(query) ==
    /\ policy = "fifo"
    /\ Returned("get_prompt_context", [query |-> query, top_k |-> None],
                FIFO_get_prompt_context(FIFO_retrieve(storage)))
    /\ UNCHANGED <<cfg, store, now>>

\* LRUMemory.get_prompt_context: the query is not passed on
LRUMemory_get_prompt_context(query) ==
    /\ policy = "lru"
    /\ access_times' = LRU_retrieve_access_times(storage, access_times, now)
    /\ Returned("get_prompt_context", [query |-> query, top_k |-> None],
                NoneIfEmpty_get_prompt_context(storage))
    /\ UNCHANGED <<cfg, storage, current_total_tokens, system_prompt, tf_cache, doc_freq,
                   total_docs, last_query, now>>

SemanticMemory_get_prompt_context(query) ==
    /\ policy = "semantic"
    /\ Returned("get_prompt_context", [query |-> query, top_k |-> None],
                NoneIfEmpty_get_prompt_context(
                    Semantic_retrieve(storage, tf_cache, doc_freq, total_docs, last_query,
                                      query, None)))
    /\ UNCHANGED <<cfg, store, now>>

\* what every clear() leaves for the observer
Cleared ==
    /\ appended' = <<>>
    /\ lastOp' = "clear"
    /\ item_arg' = None
    /\ query_arg' = NoQuery
    /\ result' = None
    /\ UNCHANGED created

FIFOMemory_clear ==
    /\ policy = "fifo"
    /\ storage' = <<>>
    /\ current_total_tokens' = 0
    /\ Cleared
    /\ UNCHANGED <<cfg, system_prompt, access_times, tf_cache, doc_freq, total_docs,
                   last_query, now>>

LRUMemory_clear ==
    /\ policy = "lru"
    /\ storage' = <<>>
    /\ current_total_tokens' = 0
    /\ access_times' = EmptyDict
    /\ Cleared
    /\ UNCHANGED <<cfg, system_prompt, tf_cache, doc_freq, total_docs, last_query, now>>

\* a variant of SemanticMemory.clear that keeps the document statistics
SemanticMemory_clear_keeping_doc_freq ==
    /\ policy = "semantic"
    /\ storage' = <<>>
    /\ current_total_tokens' = 0
    /\ tf_cache' = EmptyDict
    /\ last_query' = None
    /\ Cleared
    /\ UNCHANGED <<cfg, system_prompt, access_times, doc_freq, total_docs, now>>

SemanticMemory_clear ==
    /\ policy = "semantic"
    /\ storage' = <<>>
    /\ current_total_tokens' = 0
    /\ tf_cache' = EmptyDict
    /\ doc_freq' = EmptyDict
    /\ total_docs' = 0
    /\ last_query' = None
    /\ Cleared
    /\ UNCHANGED <<cfg, system_prompt, access_times, now>>

-----------------------------------------------------------------------------
(* Spec: one store of any of the three policies, driven by its public methods *)

\* the texts the behaviours use, as sequences of characters
Txt ==
    [ FanOn |-> <<"f","a","n"," ","o","n">>,
      SetFan |-> <<"s","e","t"," ","t","h","e"," ","f","a","n">>,
      Done |-> <<"D","o","n","e">>,
      Sys |-> <<"Y","o","u"," ","a","r","e"," ","a"," ","h","e","l","p","e","r">>,
      Fan |-> <<"f","a","n">>,
      Get |-> <<"g","e","t">>,
      DeviceId |-> <<"d","e","v","i","c","e","_","i","d">>,
      Ac |-> <<"a","c">>,
      Hi |-> <<"h","i">>,
      Set |-> <<"s","e","t">>,
      On |-> <<"o","n">>,
      Action |-> <<"a","c","t","i","o","n">>,
      Read |-> <<"r","e","a","d">>,
    \* 48 characters, 12 tokens under the default estimator
      X48 |-> [i \in 1..48 |-> "x"],
    \* 164 characters, 41 tokens: more than the whole budget
      Y164 |-> [i \in 1..164 |-> "y"],
      Thermostat |-> <<"t","h","e","r","m","o","s","t","a","t">>,
      ThermostatSettings |-> <<"t","h","e","r","m","o","s","t","a","t"," ", "s","e","t","t","i","n","g","s">>,
      ThermostatIs21 |-> <<"T","h","e","r","m","o","s","t","a","t"," ","i","s"," ","2","1">>,
      MoreSettings |-> <<"m","o","r","e"," ","s","e","t","t","i","n","g","s"," ", "s","e","t","t","i","n","g","s">>,
      Status |-> <<"s","t","a","t","u","s">>,
      Ok |-> <<"o","k">>,
      Lamp |-> <<"l","a","m","p">> ]

\* the arguments of the MemoryItem constructions the behaviours use
Tpl ==
    \* an instruction turn as PurpleAgent.step adds it
    [ UserFanOn |-> Template(RoleUser, Some(Txt.FanOn), <<>>, None),
      UserSetFan |-> Template(RoleUser, Some(Txt.SetFan), <<>>, None),
    \* a plain reply, with the completion_tokens the API reported
      Reply |-> Template(RoleAssistant, Some(Txt.Done), <<>>, Some(3)),
    \* a tool-call turn awaiting its result
      ToolCall |-> Template(RoleAssistant, None, <<ToolInteraction(Txt.Get, "call_1", DictInput(<< <<Txt.DeviceId, Txt.Ac>> >>), <<>>)>>, None),
    \* MemoryItem(role="system", raw_data=..., content=system_prompt) of Agent.__init__
      SystemPrompt |-> Template(RoleSystem, Some(Txt.Sys), <<>>, None),
    \* a reply for which the API reported completion_tokens = 0
      ReplyZero |-> Template(RoleAssistant, Some(Txt.SetFan), <<>>, Some(0)),
    \* turns of 48 and of 164 characters, and the turns of the thermostat case
      UserX48 |-> Template(RoleUser, Some(Txt.X48), <<>>, None),
      UserY164 |-> Template(RoleUser, Some(Txt.Y164), <<>>, None),
      ThermostatIs21 |-> Template(RoleAssistant, Some(Txt.ThermostatIs21), <<>>, None),
      UserMoreSettings |-> Template(RoleUser, Some(Txt.MoreSettings), <<>>, None),
    \* user turns with content='' and with content=None
      UserEmpty |-> Template(RoleUser, Some(<<>>), <<>>, None),
      UserNone |-> Template(RoleUser, None, <<>>, None),
    \* a tool-call turn of two interactions, the first with its result
      ToolCallTwo |-> Template(RoleAssistant, None,
                               <<ToolInteraction(Txt.Get, "call_2", DictInput(<< <<Txt.DeviceId, Txt.Fan>> >>), Txt.On),
                                 ToolInteraction(Txt.Set, "call_3", DictInput(<< <<Txt.DeviceId, Txt.Ac>> >>), <<>>)>>,
                               None) ]

\* the turns the behaviours of Spec add
SpecTemplates == {Tpl.UserFanOn, Tpl.UserSetFan, Tpl.ToolCall}

\* the queries the behaviours of Spec pass to the read operations
SpecQueries == { NoQuery,
                 [query |-> Some(Txt.Fan), top_k |-> None],
                 [query |-> Some(Txt.SetFan), top_k |-> Some(2)] }

Init == NothingCalled /\ \E c \in { Config("fifo", 3, DefaultMaxItems, DefaultRecentWindow, DefaultSemanticTopK),
                                    Config("fifo", DefaultMaxTokens, 2, DefaultRecentWindow, DefaultSemanticTopK),
                                    Config("lru", 3, DefaultMaxItems, DefaultRecentWindow, DefaultSemanticTopK),
                                    Config("lru", DefaultMaxTokens, 2, DefaultRecentWindow, DefaultSemanticTopK),
                                    Config("semantic", 3, DefaultMaxItems, 1, 1),
                                    Config("semantic", DefaultMaxTokens, 2, 1, 1),
                                    Config("semantic", DefaultMaxTokens, DefaultMaxItems, 1, 1) } : Construct(c)

Next ==
    \/ Tick
    \/ \E content \in {Txt.Sys}, suffix \in Suffixes :
          \* PurpleAgent.__init__ installs the prompt right after construction
          lastOp = "init" /\ set_system_prompt(content, suffix)
    \/ \E tpl \in SpecTemplates, suffix \in Suffixes :
          created < MaxAdds /\ FIFOMemory_add(tpl, suffix)
    \/ \E tpl \in SpecTemplates, suffix \in Suffixes :
          created < MaxAdds /\ LRUMemory_add(tpl, suffix)
    \/ \E tpl \in SpecTemplates, suffix \in Suffixes :
          created < MaxAdds /\ SemanticMemory_add(tpl, suffix)
    \/ \E q \in SpecQueries : FIFOMemory_retrieve(q)
    \/ \E q \in SpecQueries : LRUMemory_retrieve(q)
    \/ \E q \in SpecQueries : SemanticMemory_retrieve(q)
    \/ FIFOMemory_get_chat_messages
    \/ LRUMemory_get_chat_messages
    \/ SemanticMemory_get_chat_messages
    \/ \E q \in SpecQueries : FIFOMemory_get_prompt_context(q.query)
    \/ \E q \in SpecQueries : LRUMemory_get_prompt_context(q.query)
    \/ \E q \in SpecQueries : SemanticMemory_get_prompt_context(q.query)
    \/ FIFOMemory_clear
    \/ LRUMemory_clear
    \/ SemanticMemory_clear

Spec == Init /\ [][Next]_vars

-----------------------------------------------------------------------------
(* Properties of the store, checked under Spec *)

RECURSIVE IsSubsequence(_, _)
\* r can be obtained from a by deleting elements
IsSubsequence(r, a) ==
    IF r = <<>> THEN TRUE
    ELSE IF a = <<>> THEN FALSE
    ELSE IF Head(r) = Head(a) THEN IsSubsequence(Tail(r), Tail(a))
    ELSE IsSubsequence(r, Tail(a))

\* the item the last add() was given, and its cached token count
AddedItem   == Val(item_arg)
AddedTokens == Val(AddedItem.token_count)

\* C1: after every add on a FIFO or LRU store, either the token total is within
\* max_tokens and the item count within max_items, or storage holds exactly one
\* item, whose own token count exceeds max_tokens.
C1_BudgetConvergence ==
    (lastOp = "add" /\ policy \in {"fifo", "lru"}) =>
        \/ (current_total_tokens <= max_tokens /\ Len(storage) <= max_items)
        \/ (Len(storage) = 1 /\ Val(storage[1].token_count) > max_tokens)

\* an add on a FIFO or LRU store that had to evict and left something stored
C1_Witness ==
    /\ lastOp = "add"
    /\ policy \in {"fifo", "lru"}
    /\ Len(storage) >= 1
    /\ Len(storage) < Len(appended)

\* C2 as claimed: after an item whose own token count exceeds max_tokens is
\* added to a FIFO store, it is the sole item in storage.
C2_OversizedItemRetained ==
    (lastOp = "add" /\ policy = "fifo" /\ AddedTokens > max_tokens) =>
        storage = <<AddedItem>>

\* C2 as the code has it: after an item whose own token count exceeds
\* max_tokens is added to a FIFO store, enforcement has evicted the older items
\* and that item as well; storage is empty and the token total is 0.
C2_OversizedItemEvicted ==
    (lastOp = "add" /\ policy = "fifo" /\ AddedTokens > max_tokens) =>
        (storage = <<>> /\ current_total_tokens = 0)

\* an oversized item was added to a FIFO store that held older items
C2_Witness ==
    /\ lastOp = "add"
    /\ policy = "fifo"
    /\ AddedTokens > max_tokens
    /\ Len(appended) >= 2
    /\ storage = <<>>

\* C3: get_chat_messages() is the projection of the system prompt, when one has
\* been set, followed by the projections of the items of retrieve(), in order.
C3_ChatMessagesAreProjection ==
    LET \* what retrieve() with default arguments returns in the current state
        RetrieveDefault ==
            CASE policy = "fifo" -> FIFO_retrieve(storage)
              [] policy = "lru" -> storage
              [] policy = "semantic" ->
                    Semantic_retrieve(storage, tf_cache, doc_freq, total_docs, last_query, None, None)
    IN
        lastOp = "get_chat_messages" =>
            result = (IF IsNone(system_prompt) THEN <<>>
                      ELSE << [role |-> RoleSystem, content |-> Val(system_prompt).content] >>)
                     \o Concat([i \in 1..Len(RetrieveDefault) |->
                                  to_openai_messages(RetrieveDefault[i])])

\* C4: what retrieve() returns is a subsequence of the items appended since the
\* last clear, for every policy, query and top_k.
C4_RetrieveIsSubsequence ==
    lastOp = "retrieve" => IsSubsequence(result, appended)

\* a Semantic retrieve that left out an older item and returned several
C4_Witness ==
    /\ lastOp = "retrieve"
    /\ policy = "semantic"
    /\ Len(result) >= 2
    /\ Len(result) < Len(storage)

-----------------------------------------------------------------------------
(* SpecProj: the projection of one turn record, over a bounded set of records *)

MaxChain == 2   \* longest tool_chain of a projected record

\* the records drawn: every role and body, with every tool_chain of at most
\* MaxChain interactions
ProjTurns ==
    LET ProjInteractions ==
            { ToolInteraction(Txt.Get, "call_1", DictInput(<< <<Txt.DeviceId, Txt.Ac>> >>), <<>>),
              ToolInteraction(Txt.Get, "call_2",
                              DictInput(<< <<Txt.DeviceId, Txt.Fan>>, <<Txt.Action, Txt.Read>> >>),
                              Txt.On),
              ToolInteraction(Txt.Set, "call_3", StrInput(Txt.FanOn), Txt.Done) }
        ProjChains == UNION { [1..n -> ProjInteractions] : n \in 0..MaxChain }
    IN  { MemoryItem(generate_readable_id(0, RandLo), 1, role, content, chain, None) :
            role \in {RoleUser, RoleAssistant, RoleSystem},
            content \in {None, Some(<<>>), Some(Txt.Hi)},
            chain \in ProjChains }

InitProj ==
    /\ Construct(Config("fifo", DefaultMaxTokens, DefaultMaxItems,
                        DefaultRecentWindow, DefaultSemanticTopK))
    /\ appended = <<>>
    /\ lastOp = "init"
    /\ item_arg \in {Some(t) : t \in ProjTurns}
    /\ query_arg = NoQuery
    /\ result = None

\* item.to_openai_messages() on the record drawn
Project ==
    /\ lastOp = "init"
    /\ lastOp' = "to_openai_messages"
    /\ result' = to_openai_messages(Val(item_arg))
    /\ UNCHANGED <<cfg, store, now, created, appended, item_arg, query_arg>>

SpecProj == InitProj /\ [][Project]_vars

Projected == lastOp = "to_openai_messages"
Turn      == Val(item_arg)

\* C5: a record with a non-empty tool_chain projects to an assistant message
\* whose call descriptors carry the chain's tool_ids in chain order, followed by
\* one tool message per interaction whose tool_call_id is the id of the call
\* descriptor at the same position and whose content is that interaction's output.
C5_ToolRoundProjection ==
    (Projected /\ Turn.tool_chain # <<>>) =>
        LET n == Len(Turn.tool_chain) IN
        /\ Len(result) = 1 + n
        /\ result[1].role = RoleAssistant
        /\ Len(result[1].tool_calls) = n
        /\ \A i \in 1..n :
              /\ result[1].tool_calls[i].id = Turn.tool_chain[i].tool_id
              /\ result[1 + i].role = RoleTool
              /\ result[1 + i].tool_call_id = result[1].tool_calls[i].id
              /\ result[1 + i].content = Turn.tool_chain[i].tool_output

\* a record with two interactions of different ids has been projected
C5_Witness ==
    /\ Projected
    /\ Len(Turn.tool_chain) = 2
    /\ Turn.tool_chain[1].tool_id # Turn.tool_chain[2].tool_id
    /\ Len(result) = 3

\* C6: every record projects to 1 + len(tool_chain) messages, and a record with
\* an empty tool_chain to the single message {role, content} of the record.
C6_ProjectionCount ==
    Projected =>
        /\ Len(result) = 1 + Len(Turn.tool_chain)
        /\ Turn.tool_chain = <<>> =>
              result = << [role |-> Turn.role, content |-> Turn.content] >>

\* the user record "hi" without tools has been projected
C6_Witness ==
    /\ Projected
    /\ Turn.role = RoleUser
    /\ Turn.content = Some(Txt.Hi)
    /\ Turn.tool_chain = <<>>
    /\ result = << [role |-> RoleUser, content |-> Some(Txt.Hi)] >>

-----------------------------------------------------------------------------
(* SpecFifo: a FIFO store with max_tokens = 40, fed items of 12, 3 and 41 tokens *)

MaxAddsFifo == 5   \* MemoryItem objects constructed in one behaviour of SpecFifo

InitFifo == NothingCalled /\ \E c \in { Config("fifo", 40, DefaultMaxItems, DefaultRecentWindow, DefaultSemanticTopK),
                                        Config("fifo", 40, 2, DefaultRecentWindow, DefaultSemanticTopK) } : Construct(c)

NextFifo ==
    \/ Tick
    \/ \E tpl \in {Tpl.UserX48, Tpl.UserY164, Tpl.Reply}, suffix \in Suffixes :
          created < MaxAddsFifo /\ FIFOMemory_add(tpl, suffix)
    \/ \E q \in {NoQuery} : FIFOMemory_retrieve(q)
    \/ FIFOMemory_clear

SpecFifo == InitFifo /\ [][NextFifo]_vars

\* the last n elements of s
Suffix(s, n) == SubSeq(s, Len(s) - n + 1, Len(s))

\* every item appended since the last clear counts 12 tokens
AllTwelve == \A i \in 1..Len(appended) : appended[i].token_count = Some(12)

\* C7: a FIFO store always holds a contiguous suffix of the items appended
\* since the last clear; with max_tokens = 40 and 12-token items only, nothing
\* is evicted up to the 3rd add, the 4th add evicts the first item and the 5th
\* the second, leaving the last three items and a total of 36.
C7_FifoEvictsOldest ==
    /\ storage = Suffix(appended, Len(storage))
    /\ (lastOp = "add" /\ max_tokens = 40 /\ max_items = DefaultMaxItems /\ AllTwelve) =>
          /\ Len(appended) <= 3 => storage = appended
          /\ Len(appended) = 4 =>
                storage = SubSeq(appended, 2, 4) /\ current_total_tokens = 36
          /\ Len(appended) = 5 =>
                storage = SubSeq(appended, 3, 5) /\ current_total_tokens = 36

\* five 12-token items have been appended and the last three are stored
C7_Witness ==
    /\ lastOp = "add"
    /\ max_tokens = 40
    /\ max_items = DefaultMaxItems
    /\ AllTwelve
    /\ Len(appended) = 5
    /\ storage = SubSeq(appended, 3, 5)
    /\ current_total_tokens = 36

-----------------------------------------------------------------------------
(* SpecSem: a Semantic store with a small recency window and a vocabulary   *)
(* that has the terms of the query "thermostat settings"                    *)

MaxAddsSem  == 3   \* MemoryItem objects constructed in one behaviour of SpecSem
MaxClockSem == 2   \* last second of the wall clock in SpecSem

QueryThermostat == [query |-> Some(Txt.ThermostatSettings), top_k |-> None]

InitSem == NothingCalled /\ \E c \in { Config("semantic", DefaultMaxTokens, DefaultMaxItems, 1, 1),
                                       Config("semantic", DefaultMaxTokens, DefaultMaxItems, 1, 2),
                                       Config("semantic", 6, DefaultMaxItems, 1, 2),
                                       Config("semantic", DefaultMaxTokens, 1, 2, 1),
                                       Config("semantic", 3, DefaultMaxItems, 1, 1) } : Construct(c)

NextSem ==
    \/ TickTo(MaxClockSem)
    \/ \E tpl \in {Tpl.ThermostatIs21, Tpl.UserMoreSettings, Tpl.UserFanOn}, suffix \in Suffixes :
          created < MaxAddsSem /\ SemanticMemory_add(tpl, suffix)
    \/ \E q \in { NoQuery,
                  QueryThermostat,
                  [query |-> Some(Txt.ThermostatSettings), top_k |-> Some(2)],
                  [query |-> Some(<<>>), top_k |-> Some(0)] } : SemanticMemory_retrieve(q)
    \/ SemanticMemory_clear

SpecSem == InitSem /\ [][NextSem]_vars

Min(a, b) == IF a <= b THEN a ELSE b

\* C8: every retrieve() on a Semantic store returns each of the
\* min(recent_window, stored count) most recently appended items, whatever the
\* query and top_k.
C8_RecencyFloor ==
    (policy = "semantic" /\ lastOp = "retrieve") =>
        \A x \in Range(Suffix(appended, Min(recent_window, Len(storage)))) :
            x \in Range(result)

\* a retrieve with an explicit query that dropped an older item and kept the window
C8_Witness ==
    /\ policy = "semantic"
    /\ lastOp = "retrieve"
    /\ Truthy(query_arg.query)
    /\ recent_window >= 1
    /\ Len(storage) > recent_window
    /\ Len(result) < Len(storage)
    /\ Suffix(appended, recent_window) = Suffix(result, recent_window)

\* C9: after every add on a Semantic store the last
\* min(recent_window, items appended since the last clear) appended items are
\* the last items of storage, whatever the token total and max_items.
C9_WindowNeverEvicted ==
    (policy = "semantic" /\ lastOp = "add") =>
        LET n == Min(recent_window, Len(appended)) IN
        /\ Len(storage) >= n
        /\ Suffix(storage, n) = Suffix(appended, n)

\* an add that evicted down to the window and left the store over budget
C9_Witness ==
    /\ policy = "semantic"
    /\ lastOp = "add"
    /\ Len(appended) > Len(storage)
    /\ Len(storage) = recent_window
    /\ (current_total_tokens > max_tokens \/ Len(storage) > max_items)

\* the item's display content has the term
ContainsTerm(item, term) == term \in Range(Semantic_tokenize(get_display_content(item)))

\* positions in storage of the items older than the recency window
OlderPositions == 1..(Len(storage) - recent_window)

\* the score retrieve() gives the stored item at position i against a query
ScoreAt(i, query) ==
    Semantic_compute_similarity(
        Semantic_compute_tf(query),
        IF storage[i].id \in DOMAIN tf_cache THEN tf_cache[storage[i].id] ELSE EmptyDict,
        doc_freq, total_docs, Factorial(total_docs))

\* retrieve(query="thermostat settings") has just returned, from a store with
\* more than recent_window items of which exactly one older item, at position i,
\* contains the term "thermostat"
ThermostatCase(i) ==
    /\ policy = "semantic"
    /\ lastOp = "retrieve"
    /\ query_arg = QueryThermostat
    /\ Len(storage) > recent_window
    /\ i \in OlderPositions
    /\ \A j \in OlderPositions : ContainsTerm(storage[j], Txt.Thermostat) <=> j = i

\* no two items appended since the last clear carry the same id
DistinctIds == \A i, j \in 1..Len(appended) : appended[i].id = appended[j].id => i = j

\* C10 as claimed, for appended items of distinct ids: in that case the item is in
\* the result, whatever the other stored items contain.
C10_ThermostatAlwaysRetrieved ==
    \A i \in 1..Len(storage) :
        (ThermostatCase(i) /\ DistinctIds) => storage[i] \in Range(result)

\* C10 as the code has it: in that case the item is in the result provided its
\* score is positive and fewer than semantic_top_k other older items score at
\* least as high against the query.
C10_ThermostatRetrievedWithinTopK ==
    \A i \in 1..Len(storage) :
        ( /\ ThermostatCase(i)
          /\ ScoreAt(i, Txt.ThermostatSettings) > 0
          /\ Cardinality({j \in OlderPositions \ {i} :
                 ScoreAt(j, Txt.ThermostatSettings) >= ScoreAt(i, Txt.ThermostatSettings)})
               < semantic_top_k )
        => storage[i] \in Range(result)

\* the thermostat item was retrieved although another older item matched the query
C10_Witness ==
    \E i \in 1..Len(storage) :
        /\ ThermostatCase(i)
        /\ ScoreAt(i, Txt.ThermostatSettings) > 0
        /\ \E j \in OlderPositions \ {i} : ScoreAt(j, Txt.ThermostatSettings) > 0
        /\ Cardinality({j \in OlderPositions \ {i} :
               ScoreAt(j, Txt.ThermostatSettings) >= ScoreAt(i, Txt.ThermostatSettings)})
             < semantic_top_k
        /\ storage[i] \in Range(result)

-----------------------------------------------------------------------------
(* clear(), checked under Spec *)

\* the same fields of the store at hand
StoreFields ==
    [storage |-> storage, total |-> current_total_tokens, access_times |-> access_times,
     tf_cache |-> tf_cache, doc_freq |-> doc_freq, total_docs |-> total_docs,
     last_query |-> last_query]

\* C11: for every policy, clear() leaves storage, token total and every policy
\* index (access times, TF cache, document frequencies, document count, default
\* query) as on a freshly constructed store; a retrieve() right after clear()
\* returns the empty sequence, an add() right after clear() leaves what the same
\* add leaves on a fresh store, and a second clear() changes nothing.
C11_ClearIsFresh ==
    [][ LET \* storage, token total and policy indexes as __init__ leaves them
            FreshStore ==
                /\ storage = <<>>
                /\ current_total_tokens = 0
                /\ access_times = EmptyDict
                /\ tf_cache = EmptyDict
                /\ doc_freq = EmptyDict
                /\ total_docs = 0
                /\ last_query = None
            \* storage, token total and policy indexes after add(item) at time clock on a
            \* freshly constructed store of the current policy and configuration
            AddOnFresh(item, clock) ==
                IF policy = "fifo"
                THEN LET a == FIFO_add_to_storage(<<>>, 0, item)
                         m == FIFO_manage_memory_constraints(a.storage, a.total)
                     IN  [storage |-> m.storage, total |-> m.total, access_times |-> EmptyDict,
                          tf_cache |-> EmptyDict, doc_freq |-> EmptyDict, total_docs |-> 0,
                          last_query |-> None]
                ELSE IF policy = "lru"
                THEN LET a == LRU_add_to_storage(<<>>, 0, EmptyDict, item, clock)
                         m == LRU_manage_memory_constraints(a.storage, a.total, a.access_times)
                     IN  [storage |-> m.storage, total |-> m.total, access_times |-> m.access_times,
                          tf_cache |-> EmptyDict, doc_freq |-> EmptyDict, total_docs |-> 0,
                          last_query |-> None]
                ELSE LET a == Semantic_add_to_storage(<<>>, 0, EmptyDict, EmptyDict, 0, None, item)
                         m == Semantic_manage_memory_constraints(a.storage, a.total, a.tf_cache)
                     IN  [storage |-> m.storage, total |-> m.total, access_times |-> EmptyDict,
                          tf_cache |-> m.tf_cache, doc_freq |-> a.doc_freq, total_docs |-> a.total_docs,
                          last_query |-> a.last_query]
        IN  /\ (lastOp' = "clear") => FreshStore'
            /\ (lastOp = "clear" /\ lastOp' = "retrieve") => (result' = <<>>)
            /\ (lastOp = "clear" /\ lastOp' = "add") =>
                   (StoreFields' = AddOnFresh(Val(item_arg'), now))
            /\ (lastOp = "clear" /\ lastOp' = "clear") => (store' = store)
      ]_vars

\* a Semantic store that held two items, was cleared and given a third item
C11_Witness ==
    /\ policy = "semantic"
    /\ lastOp = "add"
    /\ created = 3
    /\ Len(appended) = 1
    /\ total_docs = 1
    /\ Len(storage) = 1

-----------------------------------------------------------------------------
(* SpecPrompt: a store after one of the two agents has installed the system *)
(* prompt in it, then driven by add, retrieve and clear                     *)

MaxAddsPrompt == 3   \* MemoryItem objects constructed in one behaviour of SpecPrompt

\* PurpleAgent.__init__: the prompt goes to the field self.memory.system_prompt
PurpleAgent_init(suffix) ==
    /\ lastOp = "init"
    /\ set_system_prompt(Txt.Sys, suffix)

\* Agent.__init__ of src/agent.py: the prompt goes through self.memory.add
Agent_init(suffix) ==
    /\ lastOp = "init"
    /\ \/ FIFOMemory_add(Tpl.SystemPrompt, suffix)
       \/ LRUMemory_add(Tpl.SystemPrompt, suffix)
       \/ SemanticMemory_add(Tpl.SystemPrompt, suffix)

InitPrompt == NothingCalled /\ \E c \in { Config("fifo", DefaultMaxTokens, 2, DefaultRecentWindow, DefaultSemanticTopK),
                                          Config("fifo", DefaultMaxTokens, DefaultMaxItems, DefaultRecentWindow, DefaultSemanticTopK),
                                          Config("lru", DefaultMaxTokens, 2, DefaultRecentWindow, DefaultSemanticTopK),
                                          Config("semantic", DefaultMaxTokens, 2, 1, 1) } : Construct(c)

NextPrompt ==
    \/ Tick
    \/ \E suffix \in Suffixes : PurpleAgent_init(suffix)
    \/ \E suffix \in Suffixes : Agent_init(suffix)
    \/ \E tpl \in {Tpl.UserFanOn, Tpl.Reply}, suffix \in Suffixes :
          /\ lastOp # "init"
          /\ created < MaxAddsPrompt
          /\ (FIFOMemory_add(tpl, suffix) \/ LRUMemory_add(tpl, suffix)
              \/ SemanticMemory_add(tpl, suffix))
    \/ /\ lastOp # "init"
       /\ (FIFOMemory_retrieve(NoQuery) \/ LRUMemory_retrieve(NoQuery)
           \/ SemanticMemory_retrieve(NoQuery))
    \/ /\ lastOp # "init"
       /\ (FIFOMemory_clear \/ LRUMemory_clear \/ SemanticMemory_clear)

SpecPrompt == InitPrompt /\ [][NextPrompt]_vars

RECURSIVE SumTokens(_)
\* the token counts of a list of items, added up
SumTokens(items) ==
    IF items = <<>> THEN 0 ELSE TokenCountOr0(Head(items)) + SumTokens(Tail(items))

\* C12: once an agent has installed the system prompt, the store holds exactly
\* one system-prompt record with the installed text, whatever adds, retrieves
\* and clears follow, and the record counts neither in the token total nor in
\* the item count that the budgets limit.
C12_SystemPromptHeld ==
    LET \* the system-prompt records the store holds, in its field and in storage
        SystemRecords ==
            (IF IsNone(system_prompt) THEN <<>> ELSE <<Val(system_prompt)>>)
            \o SelectSeq(storage, LAMBDA it : it.role = RoleSystem)
        \* the turns of storage, the system prompt left aside
        StoredTurns == SelectSeq(storage, LAMBDA it : it.role # RoleSystem)
    IN
        (lastOp # "init") =>
            /\ Len(SystemRecords) = 1
            /\ SystemRecords[1].content = Some(Txt.Sys)
            /\ current_total_tokens = SumTokens(StoredTurns)
            /\ Len(storage) = Len(StoredTurns)

-----------------------------------------------------------------------------
(* SpecCount: items with an unset, a zero and a positive token_count added  *)
(* to a store of each policy                                                *)

MaxAddsCount == 3   \* MemoryItem objects constructed in one behaviour of SpecCount

InitCount == NothingCalled /\ \E c \in { Config("fifo", 3, DefaultMaxItems, DefaultRecentWindow, DefaultSemanticTopK),
                                         Config("fifo", DefaultMaxTokens, 2, DefaultRecentWindow, DefaultSemanticTopK),
                                         Config("lru", DefaultMaxTokens, 2, DefaultRecentWindow, DefaultSemanticTopK),
                                         Config("semantic", DefaultMaxTokens, 2, 1, 1) } : Construct(c)

NextCount ==
    \/ Tick
    \/ \E tpl \in {Tpl.UserFanOn, Tpl.ReplyZero, Tpl.Reply, Tpl.ToolCall}, suffix \in Suffixes :
          /\ created < MaxAddsCount
          /\ (FIFOMemory_add(tpl, suffix) \/ LRUMemory_add(tpl, suffix)
              \/ SemanticMemory_add(tpl, suffix))
    \/ FIFOMemory_retrieve(NoQuery) \/ LRUMemory_retrieve(NoQuery)
    \/ SemanticMemory_retrieve(NoQuery)
    \/ FIFOMemory_get_chat_messages \/ LRUMemory_get_chat_messages
    \/ SemanticMemory_get_chat_messages
    \/ FIFOMemory_clear \/ LRUMemory_clear \/ SemanticMemory_clear

SpecCount == InitCount /\ [][NextCount]_vars

\* the items of before that are not in after (after is before with items removed)
Removed(before, after) ==
    SelectSeq(before, LAMBDA it : \A i \in 1..Len(after) : after[i] # it)

\* C13: an item added with token_count unset gets floor(len(display content) / 4),
\* an item added with token_count set, 0 included, keeps it; the running total
\* grows by exactly that count (less the counts of the items enforcement then
\* removes), and no operation changes the token_count of a stored item.
C13_TokenCountCachedOnce ==
    [][ LET \* the token_count the caller gave the item: that of the template it was made from
            GivenTokenCount(item) ==
                (CHOOSE t \in {Tpl.UserFanOn, Tpl.ReplyZero, Tpl.Reply, Tpl.ToolCall} :
                    t.role = item.role /\ t.content = item.content /\ t.tool_chain = item.tool_chain
                ).token_count
        IN  /\ (created' = created + 1) =>
                  LET it    == Val(item_arg')
                      given == GivenTokenCount(it)
                      count == IF IsNone(given) THEN Len(get_display_content(it)) \div 4
                               ELSE Val(given)
                  IN  /\ it.token_count = Some(count)
                      /\ current_total_tokens' + SumTokens(Removed(Append(storage, it), storage'))
                            = current_total_tokens + count
            /\ \A i \in 1..Len(storage), j \in 1..Len(storage') :
                  (storage[i].seq = storage'[j].seq) =>
                      (storage'[j].token_count = storage[i].token_count)
      ]_vars

\* a reply with token_count 0 and a non-empty text was added after an item
\* whose token_count was estimated, and both are stored
C13_Witness ==
    /\ lastOp = "add"
    /\ Len(storage) = 2
    /\ AddedItem.token_count = Some(0)
    /\ Len(get_display_content(AddedItem)) >= 4
    /\ storage[1].token_count = Some(11)
    /\ storage[1].tool_chain # <<>>
    /\ current_total_tokens = 11

-----------------------------------------------------------------------------
(* SpecLru: an LRU store whose items are created at sub-second ticks, with  *)
(* more than one value of the random id suffix                              *)

MaxAddsLru == 3   \* MemoryItem objects constructed in one behaviour of SpecLru
MaxTickLru == 2   \* last tick of the wall clock in SpecLru
NSuffixLru == 2   \* how many of the random id suffixes are drawn in SpecLru

\* the suffixes random.randint(1000, 9999) returns in SpecLru
LruSuffixes == {s \in RandLo..RandHi : s < RandLo + NSuffixLru}

InitLru == NothingCalled /\ \E c \in { Config("lru", DefaultMaxTokens, 1, DefaultRecentWindow, DefaultSemanticTopK),
                                       Config("lru", DefaultMaxTokens, 2, DefaultRecentWindow, DefaultSemanticTopK) } : Construct(c)

NextLru ==
    \/ SubTickTo(MaxTickLru)
    \/ \E tpl \in {Tpl.UserFanOn, Tpl.Reply}, suffix \in LruSuffixes :
          created < MaxAddsLru /\ LRUMemory_add(tpl, suffix)
    \/ LRUMemory_retrieve(NoQuery)
    \/ LRUMemory_clear

SpecLru == InitLru /\ [][NextLru]_vars

\* C14: when an add on an LRU store makes enforcement remove an item, the item
\* removed has the minimum access time of the stored items, among the items
\* sharing that minimum it has the smallest id, its tokens are subtracted from
\* the total and its access-time entry is deleted.
C14_LruRemovesMinEarliestId ==
    [][ LET \* the order of the id strings 'YYYYMMDD_HHMMSS_dddd'
            IdLeq(a, b) == a[1] < b[1] \/ (a[1] = b[1] /\ a[2] <= b[2])
        IN  (policy = "lru" /\ created' = created + 1 /\ Len(storage') <= Len(storage)) =>
                LET it     == Val(item_arg')
                    before == Append(storage, it)
                    at     == DictSet(access_times, it.id, now)
                    gone   == Removed(before, storage')
                IN  /\ Len(gone) = 1
                    /\ \A i \in 1..Len(before) :
                          /\ AccessTimeOf(at, gone[1]) <= AccessTimeOf(at, before[i])
                          /\ (AccessTimeOf(at, before[i]) = AccessTimeOf(at, gone[1]))
                                => IdLeq(gone[1].id, before[i].id)
                    /\ current_total_tokens' =
                          current_total_tokens + Val(it.token_count) - TokenCountOr0(gone[1])
                    /\ gone[1].id \notin DOMAIN access_times'
      ]_vars

-----------------------------------------------------------------------------
(* SpecLruFifo: SpecLru under the call pattern in which a retrieve() of the *)
(* whole window precedes every add                                          *)

NextLruFifo ==
    \/ SubTickTo(MaxTickLru)
    \/ \E tpl \in {Tpl.UserFanOn, Tpl.Reply}, suffix \in LruSuffixes :
          /\ lastOp = "retrieve"
          /\ created < MaxAddsLru
          /\ LRUMemory_add(tpl, suffix)
    \/ LRUMemory_retrieve(NoQuery)
    \/ LRUMemory_clear

SpecLruFifo == InitLru /\ [][NextLruFifo]_vars

\* C15: a retrieve() on an LRU store leaves every stored item with one common
\* access time, and when a retrieve() precedes every add, the LRU store holds
\* the storage sequence and the token total of a FIFO store with the same
\* budgets that was fed the same items, after every operation.
C15_LruEqualsFifo ==
    LET RECURSIVE FifoFed(_)
        \* storage and token total of a FIFOMemory of the same max_tokens and max_items
        \* after the items have been added to it in order
        FifoFed(items) ==
            IF items = <<>> THEN [storage |-> <<>>, total |-> 0]
            ELSE LET prev == FifoFed(SubSeq(items, 1, Len(items) - 1))
                     a    == FIFO_add_to_storage(prev.storage, prev.total, items[Len(items)])
                 IN  FIFO_manage_memory_constraints(a.storage, a.total)
    IN
        (policy = "lru") =>
            /\ (lastOp = "retrieve") =>
                  \A i \in 1..Len(storage), j \in 1..Len(storage) :
                      AccessTimeOf(access_times, storage[i]) = AccessTimeOf(access_times, storage[j])
            /\ storage = FifoFed(appended).storage
            /\ current_total_tokens = FifoFed(appended).total

-----------------------------------------------------------------------------
(* purple_agent/agent.py: the agent that owns one store *)

\* BaseMemory.add on the store with fields S: _add_to_storage, then
\* _manage_memory_constraints, of the policy at hand
Memory_add(S, item, clock) ==
    IF policy = "fifo"
    THEN LET a == FIFO_add_to_storage(S.storage, S.total, item)
             m == FIFO_manage_memory_constraints(a.storage, a.total)
         IN  [S EXCEPT !.storage = m.storage, !.total = m.total]
    ELSE IF policy = "lru"
    THEN LET a == LRU_add_to_storage(S.storage, S.total, S.access_times, item, clock)
             m == LRU_manage_memory_constraints(a.storage, a.total, a.access_times)
         IN  [S EXCEPT !.storage = m.storage, !.total = m.total,
                       !.access_times = m.access_times]
    ELSE LET a == Semantic_add_to_storage(S.storage, S.total, S.tf_cache, S.doc_freq,
                                          S.total_docs, S.last_query, item)
             m == Semantic_manage_memory_constraints(a.storage, a.total, a.tf_cache)
         IN  [S EXCEPT !.storage = m.storage, !.total = m.total, !.tf_cache = m.tf_cache,
                       !.doc_freq = a.doc_freq, !.total_docs = a.total_docs,
                       !.last_query = a.last_query]

\* the store after get_chat_messages(): only LRU refreshes its access times
Memory_after_get_chat_messages(S, clock) ==
    IF policy = "lru"
    THEN [S EXCEPT !.access_times = LRU_retrieve_access_times(S.storage, S.access_times, clock)]
    ELSE S

\* json_repair.loads(user_input): a text that is no JSON list, or a list
TextInput(text)  == [kind |-> "text", text |-> text, items |-> <<>>]
ListInput(items) == [kind |-> "list", text |-> <<>>, items |-> items]

\* one delivered tool result: a dict whose metadata may name the operation
\* object (key is None when metadata or operation_object is missing), or a str
DictResult(key, fields) == [kind |-> "dict", key |-> key, fields |-> fields, text |-> <<>>]
StrResult(text)         == [kind |-> "str", key |-> None, fields |-> <<>>, text |-> text]

\* what response.choices[0].message and response.usage carry
ToolCall(id, name, args) == [id |-> id, name |-> name, args |-> args]
Reply(content, tool_calls, completion_tokens) ==
    [content |-> content, tool_calls |-> tool_calls, completion_tokens |-> completion_tokens]

\* 'device_id' in args
HasKey(pairs, k) == \E i \in 1..Len(pairs) : pairs[i][1] = k

\* args['device_id'] of a dict that has the key
GetKey(pairs, k) == pairs[CHOOSE i \in 1..Len(pairs) : pairs[i][1] = k][2]

\* json.dumps of a list of dicts of plain ASCII strings
JsonDumpsList(dicts) ==
    <<"[">> \o Join(<<",", " ">>, [i \in 1..Len(dicts) |-> JsonDumps(dicts[i])]) \o <<"]">>

\* how a call of step ends: the exception that left it ("" for none), the
\* value returned, and whether the chat-completion call was reached
Outcome(raised, returned, llm) == [raised |-> raised, returned |-> returned, llm |-> llm]

\* CASE 1 of PurpleAgent.step, up to the log line 'Tool results successfully
\* added.': the exception that leaves it, "" when it runs through. The
\* assignment to tool_output follows mi['device_id'], which raises TypeError on
\* a ToolInteraction (a pydantic model has no __getitem__), so it is never run
Step_deliver_raises(stor, items) ==
    IF stor = <<>> THEN "IndexError"
    ELSE IF \E i \in 1..Len(items) : items[i].kind # "dict" THEN "AttributeError"
    ELSE IF stor[Len(stor)].tool_chain # <<>> THEN "TypeError"
    ELSE ""

\* a variant that adds one token for each delivered result to the running total
Step_deliver_counting_results(S, items) == [S EXCEPT !.total = @ + Len(items)]

\* CASE 1 of PurpleAgent.step on the store S: key_to_res_map is a local dict,
\* and the only statement that writes to a stored turn, the assignment to
\* mi.tool_output, is never reached, so the store is left as it was
Step_deliver(S, items) == S

\* the collected_interactions of the tool-call branch
Step_collected_interactions(tool_calls) ==
    [i \in 1..Len(tool_calls) |->
        ToolInteraction(tool_calls[i].name, tool_calls[i].id,
                        DictInput(tool_calls[i].args), <<>>)]

\* PurpleAgent.step(user_input), with the reply the chat-completion call gives
\* and the id suffixes of the items it constructs
PurpleAgent_step(input, reply, s1, s2) ==
    LET isreturnres == input.kind = "list" /\ input.items # <<>>
        S0       == IF isreturnres THEN Step_deliver(StoreFields, input.items)
                    ELSE StoreFields
        raises1  == IF isreturnres THEN Step_deliver_raises(storage, input.items) ELSE ""
        userItem == MemoryItem(generate_readable_id(now, s1), created + 1,
                               RoleUser, Some(input.text), <<>>, None)
        S1       == IF isreturnres THEN S0 ELSE Memory_add(S0, userItem, now)
        n1       == IF isreturnres THEN created ELSE created + 1
        app1     == IF isreturnres THEN appended
                    ELSE Append(appended, WithTokenCount(userItem))
        S2       == Memory_after_get_chat_messages(S1, now)
        isTool   == reply.tool_calls # <<>>
        raises2  == IF isTool /\ \E i \in 1..Len(reply.tool_calls) :
                                    ~HasKey(reply.tool_calls[i].args, Txt.DeviceId)
                    THEN "KeyError" ELSE ""
        replyItem == IF isTool
                     THEN MemoryItem(generate_readable_id(now, s2), n1 + 1, RoleAssistant,
                                     reply.content,
                                     Step_collected_interactions(reply.tool_calls), None)
                     ELSE MemoryItem(generate_readable_id(now, s2), n1 + 1, RoleAssistant,
                                     reply.content, <<>>, Some(reply.completion_tokens))
        S3       == Memory_add(S2, replyItem, now)
        returned == IF isTool
                    THEN JsonDumpsList([i \in 1..Len(reply.tool_calls) |->
                                           reply.tool_calls[i].args])
                    ELSE IF Truthy(reply.content) THEN Val(reply.content) ELSE <<>>
        out      == IF raises1 # ""
                    THEN [S |-> S0, created |-> created, appended |-> appended,
                          result |-> Outcome(raises1, <<>>, FALSE)]
                    ELSE IF raises2 # ""
                    THEN [S |-> S2, created |-> n1, appended |-> app1,
                          result |-> Outcome(raises2, <<>>, TRUE)]
                    ELSE [S |-> S3, created |-> n1 + 1,
                          appended |-> Append(app1, WithTokenCount(replyItem)),
                          result |-> Outcome("", returned, TRUE)]
    IN  \E o \in {out} :
        /\ storage' = o.S.storage
        /\ current_total_tokens' = o.S.total
        /\ access_times' = o.S.access_times
        /\ tf_cache' = o.S.tf_cache
        /\ doc_freq' = o.S.doc_freq
        /\ total_docs' = o.S.total_docs
        /\ last_query' = o.S.last_query
        /\ created' = o.created
        /\ appended' = o.appended
        /\ lastOp' = "step"
        /\ item_arg' = (IF storage = <<>> THEN None ELSE Some(storage[Len(storage)]))
        /\ query_arg' = [input |-> input,
                         reply |-> IF raises1 # "" THEN None ELSE Some(reply)]
        /\ result' = o.result
        /\ UNCHANGED <<cfg, system_prompt, now>>

\* PurpleAgent.reset_memory
PurpleAgent_reset_memory ==
    FIFOMemory_clear \/ LRUMemory_clear \/ SemanticMemory_clear

-----------------------------------------------------------------------------
(* SpecAgent: a PurpleAgent over a store of each policy, driven by          *)
(* instructions, deliveries of tool results and resets                      *)

MaxAddsAgent == 4   \* MemoryItem objects constructed in one behaviour of SpecAgent

\* the replies of the chat-completion call: a plain reply, and replies that
\* propose calls; CallBare leaves out the argument 'device_id'
AgentReplies ==
    LET CallAc   == ToolCall("call_1", Txt.Get,
                             << <<Txt.DeviceId, Txt.Ac>>, <<Txt.Action, Txt.Read>> >>)
        CallFan  == ToolCall("call_2", Txt.Get,
                             << <<Txt.DeviceId, Txt.Fan>>, <<Txt.Action, Txt.Read>> >>)
        CallBare == ToolCall("call_3", Txt.Get, << <<Txt.Action, Txt.Read>> >>)
    IN  { Reply(Some(Txt.Done), <<>>, 3),
          Reply(None, <<CallAc>>, 9),
          Reply(None, <<CallFan, CallAc>>, 9),
          Reply(None, <<CallAc, CallBare>>, 9) }

\* the inputs of step: an instruction, and lists of tool results; ResultBare
\* has no metadata
AgentInputs ==
    LET ResultAc   == DictResult(Some(Txt.Ac), << <<Txt.Status, Txt.Ok>> >>)
        ResultFan  == DictResult(Some(Txt.Fan), << <<Txt.Status, Txt.Ok>> >>)
        ResultLamp == DictResult(Some(Txt.Lamp), << <<Txt.Status, Txt.Ok>> >>)
        ResultBare == DictResult(None, << <<Txt.Status, Txt.Ok>> >>)
    IN  { TextInput(Txt.FanOn),
          ListInput(<<ResultAc>>),
          ListInput(<<ResultAc, ResultFan>>),
          ListInput(<<ResultLamp>>),
          ListInput(<<ResultBare>>),
          ListInput(<<StrResult(Txt.Ok)>>) }

\* get_memory_manager(memory_type): the constructor defaults of each policy
InitAgent == NothingCalled /\ \E c \in { Config(p, DefaultMaxTokens, DefaultMaxItems, DefaultRecentWindow, DefaultSemanticTopK)
                                           : p \in {"fifo", "lru", "semantic"} } : Construct(c)

NextAgent ==
    \/ \E suffix \in Suffixes : PurpleAgent_init(suffix)
    \/ \E input \in AgentInputs, reply \in AgentReplies, s1 \in Suffixes,
          s2 \in LruSuffixes :
          /\ lastOp # "init"
          /\ created + (IF input.kind = "list" THEN 1 ELSE 2) <= MaxAddsAgent
          /\ PurpleAgent_step(input, reply, s1, s2)
    \/ lastOp # "init" /\ PurpleAgent_reset_memory

SpecAgent == InitAgent /\ [][NextAgent]_vars

\* the last call of step was given a non-empty list of tool results
Delivered ==
    /\ lastOp = "step"
    /\ query_arg.input.kind = "list"
    /\ query_arg.input.items # <<>>

\* C16: when a non-empty list of tool results is delivered and some result has
\* no matching pending interaction in the most recent stored turn (unknown or
\* missing key, empty storage, or a turn without tool chain), the step ends in
\* a distinct correlation failure: it neither runs through with the result
\* dropped nor is left by an unhandled exception.
C16_CorrelationFailureSurfaced ==
    LET \* the result names the target in the call arguments of one interaction of the chain
        Matched(res, chain) ==
            /\ res.kind = "dict"
            /\ ~IsNone(res.key)
            /\ \E i \in 1..Len(chain) :
                  /\ chain[i].tool_input.kind = "dict"
                  /\ HasKey(chain[i].tool_input.pairs, Txt.DeviceId)
                  /\ GetKey(chain[i].tool_input.pairs, Txt.DeviceId) = Val(res.key)
        \* some delivered result has no pending interaction in the turn that was the
        \* most recent stored one (last is None when storage was empty)
        Unmatched(items, last) ==
            \/ IsNone(last)
            \/ Val(last).tool_chain = <<>>
            \/ \E i \in 1..Len(items) : ~Matched(items[i], Val(last).tool_chain)
        \* the exceptions that leave step unhandled
        UnhandledErrors == {"IndexError", "AttributeError", "TypeError", "KeyError"}
    IN
        (Delivered /\ Unmatched(query_arg.input.items, item_arg)) =>
            (result.raised # "" /\ result.raised \notin UnhandledErrors)

\* C17: a ToolInteraction is created with an empty tool_output; a stored
\* interaction's tool_output changes at most once, from empty to a result, on
\* the stored turn record itself; a delivery of tool results appends no turn
\* record for the results (at most the model's next reply is appended); and
\* after a delivery that ran through, every interaction of the most recent
\* tool-call turn has a non-empty tool_output.
C17_ToolOutputSetOnceInPlace ==
    [][ LET \* every interaction of the chain has a result
            AllOutputsSet(chain) == \A k \in 1..Len(chain) : chain[k].tool_output # <<>>
            \* position i holds the most recent tool-call turn of the list
            MostRecentToolTurn(stor, i) ==
                /\ stor[i].tool_chain # <<>>
                /\ \A j \in (i + 1)..Len(stor) : stor[j].tool_chain = <<>>
        IN  /\ \A j \in 1..Len(storage') :
                  (\A i \in 1..Len(storage) : storage[i].seq # storage'[j].seq) =>
                      \A k \in 1..Len(storage'[j].tool_chain) :
                          storage'[j].tool_chain[k].tool_output = <<>>
            /\ \A i \in 1..Len(storage), j \in 1..Len(storage') :
                  (storage[i].seq = storage'[j].seq) =>
                      /\ Len(storage'[j].tool_chain) = Len(storage[i].tool_chain)
                      /\ \A k \in 1..Len(storage[i].tool_chain) :
                            \/ storage'[j].tool_chain[k] = storage[i].tool_chain[k]
                            \/ /\ storage[i].tool_chain[k].tool_output = <<>>
                               /\ storage'[j].tool_chain[k] =
                                     [storage[i].tool_chain[k] EXCEPT
                                         !.tool_output = storage'[j].tool_chain[k].tool_output]
            /\ (Delivered' /\ lastOp' = "step" /\ created' # created) =>
                  /\ created' = created + 1
                  /\ storage'[Len(storage')].role = RoleAssistant
                  /\ storage'[Len(storage')].content = Val(query_arg'.reply).content
            /\ (Delivered' /\ result'.llm) =>
                  \A i \in 1..Len(storage), j \in 1..Len(storage') :
                      (MostRecentToolTurn(storage, i) /\ storage'[j].seq = storage[i].seq) =>
                          AllOutputsSet(storage'[j].tool_chain)
      ]_vars

\* C18: whenever the reply of the chat-completion call proposes tool calls, the
\* step appends exactly one new assistant turn record, whose tool_chain has one
\* ToolInteraction per proposed call, in the proposed order, with the call's
\* id, name and arguments and an empty tool_output, and returns with that turn
\* as the most recently stored one (storage[-1]).
C18_ToolCallTurnAppended ==
    [][ LET \* the calls the reply of the last step proposed
            ProposedCalls == Val(query_arg.reply).tool_calls
        IN  (lastOp' = "step" /\ result'.llm /\ ProposedCalls' # <<>>) =>
                /\ result'.raised = ""
                /\ Cardinality({j \in 1..Len(storage') :
                                   /\ storage'[j].role = RoleAssistant
                                   /\ \A i \in 1..Len(storage) : storage[i].seq # storage'[j].seq})
                      = 1
                /\ storage' # <<>>
                /\ storage'[Len(storage')].role = RoleAssistant
                /\ storage'[Len(storage')].tool_chain =
                      [k \in 1..Len(ProposedCalls') |->
                          ToolInteraction(ProposedCalls'[k].name, ProposedCalls'[k].id,
                                          DictInput(ProposedCalls'[k].args), <<>>)]
      ]_vars

-----------------------------------------------------------------------------
(* SpecAtomic: stores constructed with a token_counter that may raise *)

MaxAddsAtomic == 3   \* MemoryItem objects constructed in one behaviour of SpecAtomic

\* BaseMemory.add with a token_counter that raises when `fails`: the counter is
\* called, for an item without token_count only, before anything is written
Memory_add_estimating(S, item, clock, fails) ==
    IF IsNone(item.token_count) /\ fails
    THEN [S |-> S, raised |-> "Exception", item |-> item]
    ELSE [S |-> Memory_add(S, item, clock), raised |-> "", item |-> WithTokenCount(item)]

\* memory.add(MemoryItem(...)) on a store whose token_counter may raise
BaseMemory_add(tpl, suffix, fails) ==
    \E o \in {Memory_add_estimating(StoreFields, NewItem(tpl, suffix), now, fails)} :
        /\ storage' = o.S.storage
        /\ current_total_tokens' = o.S.total
        /\ access_times' = o.S.access_times
        /\ tf_cache' = o.S.tf_cache
        /\ doc_freq' = o.S.doc_freq
        /\ total_docs' = o.S.total_docs
        /\ last_query' = o.S.last_query
        /\ created' = created + 1
        /\ appended' = (IF o.raised = "" THEN Append(appended, o.item) ELSE appended)
        /\ lastOp' = "add"
        /\ item_arg' = Some(o.item)
        /\ query_arg' = NoQuery
        /\ result' = [raised |-> o.raised]
        /\ UNCHANGED <<cfg, system_prompt, now>>

InitAtomic == NothingCalled /\ \E c \in { Config("fifo", 3, DefaultMaxItems, DefaultRecentWindow, DefaultSemanticTopK),
                                          Config("lru", DefaultMaxTokens, 2, DefaultRecentWindow, DefaultSemanticTopK),
                                          Config("semantic", 3, DefaultMaxItems, 1, 1),
                                          Config("semantic", DefaultMaxTokens, 2, 1, 1) } : Construct(c)

NextAtomic ==
    \/ Tick
    \/ \E tpl \in {Tpl.UserFanOn, Tpl.Reply, Tpl.ToolCall}, suffix \in Suffixes, fails \in BOOLEAN :
          created < MaxAddsAtomic /\ BaseMemory_add(tpl, suffix, fails)
    \/ FIFOMemory_retrieve(NoQuery) \/ LRUMemory_retrieve(NoQuery)
    \/ SemanticMemory_retrieve(NoQuery)
    \/ FIFOMemory_clear \/ LRUMemory_clear \/ SemanticMemory_clear

SpecAtomic == InitAtomic /\ [][NextAtomic]_vars

\* C19: an add either completes, with the item appended (it is the newest
\* stored item unless enforcement removed it), the token total equal to the
\* counts of the stored items, the policy indexes updated for the item and the
\* enforcement loop run to its end, or it raises and leaves storage, the token
\* total and every policy index exactly as they were.
C19_AddIsAtomic ==
    [][ LET \* the enforcement loop of the policy at hand has nothing left to do
            EnforcementDone ==
                \/ (current_total_tokens <= max_tokens /\ Len(storage) <= max_items)
                \/ (policy \in {"fifo", "lru"} /\ storage = <<>>)
                \/ (policy = "semantic" /\ Len(storage) <= recent_window)
        IN  (created' = created + 1) =>
                \/ /\ result'.raised = ""
                   /\ LET it == Val(item_arg')
                      IN  /\ ~IsNone(it.token_count)
                          /\ IsSubsequence(storage', Append(storage, it))
                          /\ (storage' # <<>> /\ storage'[Len(storage')] = it)
                                \/ it \in Range(Removed(Append(storage, it), storage'))
                          /\ (policy = "lru" /\ it \in Range(storage'))
                                => (it.id \in DOMAIN access_times' /\ access_times'[it.id] = now)
                          /\ (policy = "semantic") =>
                                /\ total_docs' = total_docs + 1
                                /\ (it \in Range(storage')) => (it.id \in DOMAIN tf_cache')
                   /\ current_total_tokens' = SumTokens(storage')
                   /\ EnforcementDone'
                \/ /\ result'.raised # ""
                   /\ StoreFields' = StoreFields
      ]_vars

-----------------------------------------------------------------------------
(* get_prompt_context, under Spec *)

\* C20: get_prompt_context(query) returns a string, the in-order concatenation
\* of one line "<Capitalized role>: <display content>\n" per item of
\* retrieve(query), the display content being the tool-chain lines followed by
\* the body text joined by newlines; on an empty store it returns the empty
\* string.
C20_PromptContextIsString ==
    lastOp = "get_prompt_context" =>
        LET items == IF policy = "semantic"
                     THEN Semantic_retrieve(storage, tf_cache, doc_freq, total_docs,
                                            last_query, query_arg.query, None)
                     ELSE storage
            line(it) == StrCapitalize(it.role) \o <<":", " ">>
                        \o get_display_content(it) \o <<"\n">>
        IN  /\ ~IsNone(result)
            /\ Val(result) = Concat([i \in 1..Len(items) |-> line(items[i])])
            /\ (storage = <<>>) => (result = Some(<<>>))

-----------------------------------------------------------------------------
(* default ids, under SpecLru *)

\* C21: any two records created with default ids have different ids, and the
\* order of the ids ('YYYYMMDD_HHMMSS_dddd', compared as strings) is the order
\* in which the records were created and appended, also within one second.
C21_IdsUniqueAndOrdered ==
    \A i, j \in 1..Len(appended) :
        (i < j) =>
            LET a == appended[i].id
                b == appended[j].id
            IN  /\ appended[i].seq < appended[j].seq
                /\ a # b
                /\ a[1] < b[1] \/ (a[1] = b[1] /\ a[2] < b[2])

-----------------------------------------------------------------------------
(* SpecFactory: get_memory_manager, then the store it returned *)

MaxAddsFactory == 2   \* MemoryItem objects constructed in one behaviour of SpecFactory

\* a variant that falls back to the default class for an unknown name
get_memory_manager_falling_back(config_name, env) ==
    LET target_name == IF ~IsNone(config_name) /\ Val(config_name) # "" THEN Val(config_name)
                       ELSE IF IsNone(env) THEN "fifo" ELSE Val(env)
        MEMORY_REGISTRY == {"fifo", "lru", "semantic"}
    IN  IF target_name \in MEMORY_REGISTRY
        THEN [raised |-> "", policy |-> target_name]
        ELSE [raised |-> "", policy |-> "fifo"]

\* get_memory_manager(config_name): env is the value of MEMORY_MANAGER_TYPE in
\* the environment (None when unset); the class looked up, or the ValueError
get_memory_manager(config_name, env) ==
    LET target_name == IF ~IsNone(config_name) /\ Val(config_name) # "" THEN Val(config_name)
                       ELSE IF IsNone(env) THEN "fifo" ELSE Val(env)
        MEMORY_REGISTRY == {"fifo", "lru", "semantic"}
    IN  IF target_name \in MEMORY_REGISTRY
        THEN [raised |-> "", policy |-> target_name]
        ELSE [raised |-> "ValueError", policy |-> "none"]

\* get_memory_manager(config_name, max_items=kw): memory_class(**kwargs) runs
\* only after the lookup succeeded
Memory_get_memory_manager(config_name, env, kw) ==
    /\ policy = "none"
    /\ \E o \in {get_memory_manager(config_name, env)} :
          /\ IF o.raised = ""
             THEN /\ policy' = o.policy
                  /\ max_tokens' = DefaultMaxTokens
                  /\ max_items' = kw
                  /\ recent_window' = DefaultRecentWindow
                  /\ semantic_top_k' = DefaultSemanticTopK
                  /\ storage' = <<>>
                  /\ current_total_tokens' = 0
                  /\ system_prompt' = None
                  /\ access_times' = EmptyDict
                  /\ tf_cache' = EmptyDict
                  /\ doc_freq' = EmptyDict
                  /\ total_docs' = 0
                  /\ last_query' = None
             ELSE UNCHANGED <<cfg, store>>
          /\ result' = [raised |-> o.raised]
    /\ lastOp' = "get_memory_manager"
    /\ item_arg' = None
    /\ query_arg' = [config_name |-> config_name, env |-> env]
    /\ UNCHANGED <<now, created, appended>>

\* no store has been constructed: policy "none" and no field holds anything
InitFactory == NothingCalled /\ Construct(Config("none", 0, 0, 0, 0))

NextFactory ==
    \/ Tick
    \/ \E config_name \in {None, Some(""), Some("fifo"), Some("lru"), Some("semantic"),
                          Some("FIFO"), Some("redis")},
          env \in {None, Some(""), Some("lru"), Some("redis")}, kw \in {1, 2} :
          Memory_get_memory_manager(config_name, env, kw)
    \/ \E tpl \in {Tpl.UserFanOn, Tpl.Reply}, suffix \in Suffixes :
          /\ created < MaxAddsFactory
          /\ (FIFOMemory_add(tpl, suffix) \/ LRUMemory_add(tpl, suffix)
                \/ SemanticMemory_add(tpl, suffix))
    \/ FIFOMemory_retrieve(NoQuery) \/ LRUMemory_retrieve(NoQuery)
    \/ SemanticMemory_retrieve(NoQuery)
    \/ FIFOMemory_clear \/ LRUMemory_clear \/ SemanticMemory_clear

SpecFactory == InitFactory /\ [][NextFactory]_vars

\* C22: get_memory_manager(name) returns a new store of the policy registered
\* under name for "fifo", "lru" and "semantic", a FIFO store when no name is
\* given and none is configured in the environment, and for every other name
\* raises ValueError and constructs no store.
C22_FactoryByName ==
    (lastOp = "get_memory_manager") =>
        LET name  == query_arg.config_name
            given == ~IsNone(name) /\ Val(name) # ""
            fresh == /\ storage = <<>> /\ current_total_tokens = 0
                     /\ IsNone(system_prompt)
        IN  /\ (given /\ Val(name) \in {"fifo", "lru", "semantic"}) =>
                  (result.raised = "" /\ policy = Val(name) /\ fresh)
            /\ (~given /\ IsNone(query_arg.env)) =>
                  (result.raised = "" /\ policy = "fifo" /\ fresh)
            /\ (given /\ Val(name) \notin {"fifo", "lru", "semantic"}) =>
                  (result.raised = "ValueError" /\ policy = "none")

\* an unknown name was refused
C22_Witness ==
    /\ lastOp = "get_memory_manager"
    /\ query_arg.config_name = Some("redis")
    /\ result.raised = "ValueError"
    /\ policy = "none"

-----------------------------------------------------------------------------
(* correlation of delivered results, under SpecAgent *)

\* C23: when tool results are delivered and every pending interaction of the
\* most recent turn has a result whose key is the device_id of its own call
\* arguments, then after the step each of those interactions carries the output
\* of a result with that key, whatever the order of the delivered list.
C23_ResultsAttachedByKey ==
    [][ LET last  == Val(item_arg')
            items == query_arg'.input.items
            \* the delivered results whose key is the device_id of the interaction
            ResultsFor(t) ==
                {i \in 1..Len(items) :
                    /\ items[i].kind = "dict"
                    /\ ~IsNone(items[i].key)
                    /\ t.tool_input.kind = "dict"
                    /\ HasKey(t.tool_input.pairs, Txt.DeviceId)
                    /\ GetKey(t.tool_input.pairs, Txt.DeviceId) = Val(items[i].key)}
        IN  (/\ Delivered'
             /\ ~IsNone(item_arg')
             /\ last.tool_chain # <<>>
             /\ \A k \in 1..Len(last.tool_chain) : ResultsFor(last.tool_chain[k]) # {}) =>
                \E j \in 1..Len(storage') :
                    /\ storage'[j].seq = last.seq
                    /\ \A k \in 1..Len(last.tool_chain) :
                          \E i \in ResultsFor(last.tool_chain[k]) :
                              storage'[j].tool_chain[k].tool_output = JsonDumps(items[i].fields)
      ]_vars

-----------------------------------------------------------------------------
(* relevance retrieval, under SpecSem *)

\* C24: when a Semantic store holds more than recent_window items and a query
\* is usable (the explicit one, else the cached last user content), retrieve
\* returns the recency window together with at most top_k older items, every
\* returned older item has a strictly positive score, and no omitted older item
\* has a score strictly greater than that of a returned older item.
C24_WindowPlusTopK ==
    LET top_k    == IF IsNone(query_arg.top_k) THEN semantic_top_k ELSE Val(query_arg.top_k)
        query    == IF Truthy(query_arg.query) THEN query_arg.query ELSE last_query
        ret(i)   == storage[i] \in Range(result)
        returned == {i \in OlderPositions : ret(i)}
    IN  (/\ policy = "semantic"
         /\ lastOp = "retrieve"
         /\ Len(storage) > recent_window
         /\ Truthy(query)) =>
            /\ Range(result) \subseteq Range(storage)
            /\ \A i \in 1..Len(storage) : (i \notin OlderPositions) => ret(i)
            /\ Cardinality(returned) <= top_k
            /\ \A i \in returned : ScoreAt(i, Val(query)) > 0
            /\ \A i \in returned, j \in OlderPositions \ returned :
                  ScoreAt(j, Val(query)) <= ScoreAt(i, Val(query))


\* C25: on a Semantic store the score of a stored item against a query is the
\* sum, over the terms that the query and the item's display content share, of
\* query frequency * item frequency * (1 + total_docs / doc_freq(term)); it is
\* zero exactly when they share no term, and an older item that retrieve()
\* returns has a positive score.  Scores are compared as score * total_docs!.
C25_ScoreFormula ==
    LET den        == Factorial(total_docs)
        queries    == {Txt.ThermostatSettings, Txt.FanOn}
                          \cup (IF Truthy(last_query) THEN {Val(last_query)} ELSE {})
        query      == IF Truthy(query_arg.query) THEN query_arg.query ELSE last_query
        docTf(i)   == Semantic_compute_tf(get_display_content(storage[i]))
        shared(i, q) == DOMAIN Semantic_compute_tf(q) \cap DOMAIN docTf(i)
        claimed(i, q) ==
            SumOver(shared(i, q),
                    [t \in shared(i, q) |->
                        IF t \in DOMAIN doc_freq /\ doc_freq[t] > 0
                        THEN Semantic_compute_tf(q)[t] * docTf(i)[t] *
                             (den + (den \div doc_freq[t]) * total_docs)
                        ELSE -1])
    IN  (policy = "semantic") =>
            /\ \A i \in 1..Len(storage), q \in queries :
                  /\ ScoreAt(i, q) = claimed(i, q)
                  /\ (ScoreAt(i, q) = 0) <=> (shared(i, q) = {})
            /\ (lastOp = "retrieve" /\ Truthy(query) /\ Len(storage) > recent_window) =>
                  \A i \in OlderPositions :
                      (storage[i] \in Range(result)) => ScoreAt(i, Val(query)) > 0


\* C26: after every add on a Semantic store, if more items are stored than
\* recent_window then the token total is at most max_tokens and the stored
\* count is at most max_items; the budget is exceeded only when at most
\* recent_window items are stored.
C26_BudgetBeyondWindow ==
    (policy = "semantic" /\ lastOp = "add" /\ Len(storage) > recent_window) =>
        /\ SumTokens(storage) <= max_tokens
        /\ current_total_tokens <= max_tokens
        /\ Len(storage) <= max_items

\* an add that evicted an older item and stopped above the window, within budget
C26_Witness ==
    /\ policy = "semantic"
    /\ lastOp = "add"
    /\ Len(appended) > Len(storage)
    /\ Len(storage) > recent_window
    /\ current_total_tokens <= max_tokens


-----------------------------------------------------------------------------
(* The enforcement loop of add(), one iteration at a time: SpecLoop *)

MaxAddsLoop == 3   \* MemoryItem objects constructed in one behaviour of SpecLoop

\* BaseMemory.add up to the call of _manage_memory_constraints: the caller's
\* item is appended by _add_to_storage.  result counts the stored items at
\* that point and the removals of the loop that follows
Enforce_begin(tpl, suffix) ==
    /\ lastOp # "enforce"
    /\ \E it \in {NewItem(tpl, suffix)} :
       \E a \in {CASE policy = "fifo" ->
                        FIFO_add_to_storage(storage, current_total_tokens, it)
                          @@ [access_times |-> access_times, tf_cache |-> tf_cache,
                              doc_freq |-> doc_freq, total_docs |-> total_docs,
                              last_query |-> last_query]
                   [] policy = "lru" ->
                        LRU_add_to_storage(storage, current_total_tokens, access_times, it, now)
                          @@ [tf_cache |-> tf_cache, doc_freq |-> doc_freq,
                              total_docs |-> total_docs, last_query |-> last_query]
                   [] policy = "semantic" ->
                        Semantic_add_to_storage(storage, current_total_tokens, tf_cache,
                                                doc_freq, total_docs, last_query, it)
                          @@ [access_times |-> access_times]} :
           /\ storage' = a.storage
           /\ current_total_tokens' = a.total
           /\ access_times' = a.access_times
           /\ tf_cache' = a.tf_cache
           /\ doc_freq' = a.doc_freq
           /\ total_docs' = a.total_docs
           /\ last_query' = a.last_query
           /\ created' = created + 1
           /\ appended' = Append(appended, a.storage[Len(a.storage)])
           /\ lastOp' = "enforce"
           /\ item_arg' = Some(a.storage[Len(a.storage)])
           /\ query_arg' = NoQuery
           /\ result' = [count |-> Len(a.storage), removals |-> 0]
    /\ UNCHANGED <<cfg, system_prompt, now>>

\* a variant whose body frees the tokens and leaves the item in storage
Enforce_iteration_keeping_item ==
    /\ lastOp = "enforce"
    /\ current_total_tokens > max_tokens \/ Len(storage) > max_items
    /\ IF policy = "semantic" THEN Len(storage) > recent_window ELSE storage # <<>>
    /\ current_total_tokens' = current_total_tokens - TokenCountOr0(Head(storage))
    /\ result' = [result EXCEPT !.removals = @ + 1]
    /\ UNCHANGED <<cfg, storage, system_prompt, access_times, tf_cache, doc_freq, total_docs,
                   last_query, now, created, appended, lastOp, item_arg, query_arg>>

\* one run of the body of the while loop of _manage_memory_constraints:
\* FIFO and Semantic pop the first item, LRU removes the least recently used
Enforce_iteration ==
    /\ lastOp = "enforce"
    /\ current_total_tokens > max_tokens \/ Len(storage) > max_items
    /\ IF policy = "semantic" THEN Len(storage) > recent_window ELSE storage # <<>>
    /\ \E removed_item \in {IF policy = "lru" THEN LRU_min(storage, access_times)
                                              ELSE Head(storage)} :
          /\ storage' = IF policy = "lru" THEN ListRemove(storage, removed_item)
                                          ELSE Tail(storage)
          /\ current_total_tokens' = current_total_tokens - TokenCountOr0(removed_item)
          /\ access_times' = IF policy = "lru" /\ removed_item.id \in DOMAIN access_times
                             THEN DictDel(access_times, removed_item.id) ELSE access_times
          /\ tf_cache' = IF policy = "semantic" /\ removed_item.id \in DOMAIN tf_cache
                         THEN DictDel(tf_cache, removed_item.id) ELSE tf_cache
    /\ result' = [result EXCEPT !.removals = @ + 1]
    /\ UNCHANGED <<cfg, system_prompt, doc_freq, total_docs, last_query, now, created,
                   appended, lastOp, item_arg, query_arg>>

\* the loop condition is false: _manage_memory_constraints and add() return
Enforce_end ==
    /\ lastOp = "enforce"
    /\ ~ (/\ current_total_tokens > max_tokens \/ Len(storage) > max_items
          /\ IF policy = "semantic" THEN Len(storage) > recent_window ELSE storage # <<>>)
    /\ lastOp' = "add"
    /\ UNCHANGED <<cfg, store, now, created, appended, item_arg, query_arg, result>>

NextLoop ==
    \/ SubTickTo(MaxTickLru)
    \/ \E tpl \in {Tpl.UserFanOn, Tpl.UserMoreSettings}, suffix \in Suffixes :
          created < MaxAddsLoop /\ Enforce_begin(tpl, suffix)
    \/ Enforce_iteration
    \/ Enforce_end

InitLoop == NothingCalled /\ \E c \in { Config("fifo", 3, DefaultMaxItems, DefaultRecentWindow, DefaultSemanticTopK),
                                        Config("fifo", DefaultMaxTokens, 0, DefaultRecentWindow, DefaultSemanticTopK),
                                        Config("lru", 3, DefaultMaxItems, DefaultRecentWindow, DefaultSemanticTopK),
                                        Config("lru", DefaultMaxTokens, 0, DefaultRecentWindow, DefaultSemanticTopK),
                                        Config("semantic", 3, DefaultMaxItems, 2, 1),
                                        Config("semantic", DefaultMaxTokens, 0, 1, 1),
                                        Config("semantic", 6, 2, 0, 1) } : Construct(c)

\* the process runs the loop whenever it can take a step
SpecLoop == InitLoop /\ [][NextLoop]_vars /\ WF_vars(Enforce_iteration \/ Enforce_end)

\* C27: for every policy the enforcement loop that add() runs comes to its end;
\* each iteration leaves one item fewer in storage, and the removals of one
\* loop never exceed the number of items stored when the loop started.
C27_EnforcementTerminates ==
    /\ [](lastOp \in {"enforce", "add"} =>
              /\ result.removals <= result.count
              /\ Len(storage) = result.count - result.removals)
    /\ [][(lastOp = "enforce" /\ lastOp' = "enforce" /\ result' # result) =>
              Len(storage') < Len(storage)]_vars
    /\ (lastOp = "enforce") ~> (lastOp = "add")

\* a loop that ended after removing every stored item, more than one, the last
\* of them the oversized item just added
C27_Witness ==
    /\ lastOp = "add"
    /\ result.count > 1
    /\ result.removals = result.count
    /\ storage = <<>>
    /\ AddedTokens > max_tokens


-----------------------------------------------------------------------------
(* The default query of a Semantic store: SpecQuery *)

MaxAddsQuery == 3   \* MemoryItem objects constructed in one behaviour of SpecQuery

SpecQuery ==
    InitSem
    /\ [][ \/ Tick
           \/ \E tpl \in {Tpl.UserFanOn, Tpl.UserSetFan, Tpl.UserEmpty, Tpl.UserNone,
                          Tpl.Reply, Tpl.SystemPrompt}, suffix \in Suffixes :
                 created < MaxAddsQuery /\ SemanticMemory_add(tpl, suffix)
           \/ \E q \in { NoQuery,
                         [query |-> Some(<<>>), top_k |-> None],
                         [query |-> Some(Txt.Fan), top_k |-> None] } :
                 SemanticMemory_retrieve(q)
           \/ SemanticMemory_clear ]_vars

\* C28: the default query of a Semantic store is the content of the user turn
\* with non-empty content appended last since the last clear, whatever was
\* added, retrieved or evicted after it; a retrieve() without an explicit query
\* searches with it, and returns every stored item when there is no such turn.
C28_DefaultQuery ==
    LET userTurns == {i \in 1..Len(appended) :
                         appended[i].role = RoleUser /\ Truthy(appended[i].content)}
        latest    == CHOOSE i \in userTurns : \A j \in userTurns : j <= i
        expected  == IF userTurns = {} THEN None ELSE appended[latest].content
    IN  (policy = "semantic") =>
            /\ last_query = expected
            /\ (lastOp = "retrieve" /\ ~Truthy(query_arg.query)) =>
                  /\ result = Semantic_retrieve(storage, tf_cache, doc_freq, total_docs,
                                                None, expected, query_arg.top_k)
                  /\ (userTurns = {}) => result = storage

\* a retrieve() without a query, after the user turn that gave the default
\* query was evicted and an assistant turn was added
C28_Witness ==
    /\ policy = "semantic"
    /\ lastOp = "retrieve"
    /\ ~Truthy(query_arg.query)
    /\ Truthy(last_query)
    /\ Len(storage) > 1
    /\ \A i \in 1..Len(storage) : storage[i].role # RoleUser
    /\ Len(result) < Len(storage)


\* C29: in every reachable state of a store of any policy, every stored item
\* has its token count cached and current_total_tokens is the sum of the
\* cached counts of the stored items.
C29_TotalIsSumOfCounts ==
    /\ \A i \in 1..Len(storage) : ~IsNone(storage[i].token_count)
    /\ current_total_tokens = SumTokens(storage)

\* an add that evicted, leaving a turn whose count was given and a turn whose
\* count was estimated
C29_Witness ==
    /\ lastOp = "add"
    /\ Len(appended) > Len(storage)
    /\ current_total_tokens > 0
    /\ \E i, j \in 1..Len(storage) :
          /\ storage[i].content = Tpl.Reply.content
          /\ storage[j].content = Tpl.UserFanOn.content


\* C30: in an LRU store whose items, appended since the last clear, carry
\* pairwise different ids, after any interleaving of add, retrieve and clear
\* every stored item has an access time, the access times never decrease along
\* storage, and storage and token total are those of a FIFO store of the same
\* budgets fed the same adds.
C30_LruIsFifoWithDistinctIds ==
    LET RECURSIVE FifoFed(_)
        \* storage and token total of a FIFOMemory of the same max_tokens and max_items
        \* after the items have been added to it in order
        FifoFed(items) ==
            IF items = <<>> THEN [storage |-> <<>>, total |-> 0]
            ELSE LET prev == FifoFed(SubSeq(items, 1, Len(items) - 1))
                     a    == FIFO_add_to_storage(prev.storage, prev.total, items[Len(items)])
                 IN  FIFO_manage_memory_constraints(a.storage, a.total)
        fifo == FifoFed(appended)
    IN  (policy = "lru" /\ DistinctIds) =>
            /\ \A i \in 1..Len(storage) : storage[i].id \in DOMAIN access_times
            /\ \A i, j \in 1..Len(storage) :
                  (i <= j) => access_times[storage[i].id] <= access_times[storage[j].id]
            /\ storage = fifo.storage
            /\ current_total_tokens = fifo.total

\* an add without a retrieve before it, on a store whose older items were
\* refreshed by a retrieve: enforcement removed the oldest item and left two
\* items of different access times
C30_Witness ==
    /\ policy = "lru"
    /\ DistinctIds
    /\ lastOp = "add"
    /\ Len(appended) > Len(storage)
    /\ Len(storage) > 1
    /\ access_times[storage[1].id] < access_times[storage[Len(storage)].id]
    /\ access_times[storage[1].id] > 0


\* C31: in every reachable state the keys of the access-time map of an LRU
\* store, and the keys of the term-frequency cache of a Semantic store, are
\* exactly the ids of the stored items, also when stored items share an id.
C31_IndexesTrackStorage ==
    LET storedIds == {storage[i].id : i \in 1..Len(storage)}
    IN  /\ (policy = "lru") => DOMAIN access_times = storedIds
        /\ (policy = "semantic") => DOMAIN tf_cache = storedIds


-----------------------------------------------------------------------------
(* Tool rounds in the chat messages of a store that evicts: SpecRound *)

MaxAddsRound == 3   \* MemoryItem objects constructed in one behaviour of SpecRound

SpecRound ==
    InitCount
    /\ [][ \/ Tick
           \/ \E content \in {Txt.Sys}, suffix \in Suffixes :
                 lastOp = "init" /\ set_system_prompt(content, suffix)
           \/ \E tpl \in {Tpl.UserFanOn, Tpl.Reply, Tpl.ToolCall, Tpl.ToolCallTwo},
                 suffix \in Suffixes :
                 /\ created < MaxAddsRound
                 /\ (FIFOMemory_add(tpl, suffix) \/ LRUMemory_add(tpl, suffix)
                     \/ SemanticMemory_add(tpl, suffix))
           \/ FIFOMemory_get_chat_messages
           \/ LRUMemory_get_chat_messages
           \/ SemanticMemory_get_chat_messages ]_vars

\* C32: in the list get_chat_messages() returns, for every policy, each tool
\* message follows an assistant message whose call descriptors hold its
\* tool_call_id, with nothing but tool messages between the two, and each call
\* descriptor of an assistant message has exactly one tool message of its id
\* among the tool messages that follow the assistant message directly.
C32_ToolRoundsWhole ==
    LET n == Len(result)
        isTool(k)   == result[k].role = RoleTool
        hasCalls(k) == "tool_calls" \in DOMAIN result[k]
        \* the tool messages that follow message a with only tool messages between
        block(a)    == {k \in (a + 1)..n : \A j \in (a + 1)..k : isTool(j)}
    IN  (lastOp = "get_chat_messages") =>
            /\ \A k \in 1..n :
                  isTool(k) =>
                      \E a \in 1..(k - 1) :
                          /\ k \in block(a)
                          /\ result[a].role = RoleAssistant
                          /\ hasCalls(a)
                          /\ \E c \in 1..Len(result[a].tool_calls) :
                                result[a].tool_calls[c].id = result[k].tool_call_id
            /\ \A a \in 1..n :
                  hasCalls(a) =>
                      \A c \in 1..Len(result[a].tool_calls) :
                          Cardinality({k \in block(a) :
                              result[k].tool_call_id = result[a].tool_calls[c].id}) = 1

\* the chat messages of a store that has evicted a turn and holds a tool round
\* of two calls followed by another turn
C32_Witness ==
    /\ lastOp = "get_chat_messages"
    /\ Len(appended) > Len(storage)
    /\ \E a \in 1..Len(result) :
          /\ "tool_calls" \in DOMAIN result[a]
          /\ Len(result[a].tool_calls) > 1
          /\ a + Len(result[a].tool_calls) < Len(result)


C34_ReadsLeaveStore ==
    [][ (lastOp' \in {"retrieve", "get_chat_messages", "get_prompt_context"}) =>
            /\ storage' = storage
            /\ current_total_tokens' = current_total_tokens
            /\ UNCHANGED <<cfg, system_prompt, tf_cache, doc_freq, total_docs, last_query>>
            /\ (policy # "lru") => access_times' = access_times
      ]_vars

\* a read of an LRU store that evicted before, some seconds after construction:
\* the stored items carry the time of the read
C34_Witness ==
    /\ policy = "lru"
    /\ lastOp = "get_prompt_context"
    /\ Len(appended) > Len(storage)
    /\ storage # <<>>
    /\ now > 0
    /\ \A i \in 1..Len(storage) : AccessTimeOf(access_times, storage[i]) = now

=============================================================================
